---------------------------- MODULE Spec2Model ----------------------------
(***************************************************************************)
(* A model of app.py, the Flask webhook that turns a Google Alert email    *)
(* into SmartSuite records.                                                *)
(*                                                                         *)
(* Python strings are modelled as sequences of characters, so that the     *)
(* regular expressions of the source are computed character by character.  *)
(* A printable ASCII character is the one-character string of itself; any  *)
(* other character is the string Python's ascii() writes for it: "\t",     *)
(* "\n", "\\x0b", "\\xa0", "\\u20ac", "\\U0001f600" (and the grave accent,  *)
(* which a TLA+ string cannot hold, is "\\x60").  The texts of headlines   *)
(* and sources are over the code points 0..255 and the white space of      *)
(* Unicode; a URL may hold any code point.  A parsed HTML document is the  *)
(* sequence of its nodes in document order, each with its depth in the     *)
(* tree.                                                                   *)
(***************************************************************************)
EXTENDS Integers, Sequences, FiniteSets, TLC

(***************************************************************************)
(* Characters and strings                                                  *)
(***************************************************************************)
Lower ==
    {"a","b","c","d","e","f","g","h","i","j","k","l","m",
     "n","o","p","q","r","s","t","u","v","w","x","y","z"}

Upper ==
    {"A","B","C","D","E","F","G","H","I","J","K","L","M",
     "N","O","P","Q","R","S","T","U","V","W","X","Y","Z"}

Digit == {"0","1","2","3","4","5","6","7","8","9"}

Letter == Lower \cup Upper

\* chr(32) .. chr(126)
Ascii ==
    <<" ","!","\"","#","$","%","&","'","(",")","*","+",",","-",".","/",
      "0","1","2","3","4","5","6","7","8","9",":",";","<","=",">","?","@",
      "A","B","C","D","E","F","G","H","I","J","K","L","M",
      "N","O","P","Q","R","S","T","U","V","W","X","Y","Z",
      "[","\\","]","^","_","\\x60",
      "a","b","c","d","e","f","g","h","i","j","k","l","m",
      "n","o","p","q","r","s","t","u","v","w","x","y","z",
      "{","|","}","~">>

HexLower == <<"0","1","2","3","4","5","6","7","8","9","a","b","c","d","e","f">>

RECURSIVE HexText(_, _)
\* n in hexadecimal, width digits wide
HexText(n, width) ==
    IF width = 0 THEN "" ELSE HexText(n \div 16, width - 1) \o HexLower[(n % 16) + 1]

\* chr(0) .. chr(31)
Control ==
    <<"\\x00", "\\x01", "\\x02", "\\x03", "\\x04", "\\x05", "\\x06", "\\x07",
     "\\x08", "\t", "\n", "\\x0b", "\f", "\r", "\\x0e", "\\x0f", "\\x10",
     "\\x11", "\\x12", "\\x13", "\\x14", "\\x15", "\\x16", "\\x17", "\\x18",
     "\\x19", "\\x1a", "\\x1b", "\\x1c", "\\x1d", "\\x1e", "\\x1f">>

\* chr(n)
Chr(n) ==
    CASE n \in 0..31 -> Control[n + 1]
      [] n \in 32..126 -> Ascii[n - 31]
      [] n < 256 -> "\\x" \o HexText(n, 2)
      [] n < 65536 -> "\\u" \o HexText(n, 4)
      [] OTHER -> "\\U" \o HexText(n, 8)

\* ord(c) of a character below chr(256)
Ord(c) == IF \E k \in 1..Len(Ascii) : Ascii[k] = c
          THEN 31 + CHOOSE k \in 1..Len(Ascii) : Ascii[k] = c
          ELSE IF \E k \in 1..Len(Control) : Control[k] = c
          THEN (CHOOSE k \in 1..Len(Control) : Control[k] = c) - 1
          ELSE CHOOSE n \in 127..255 : Chr(n) = c

\* the character is one of chr(0) .. chr(127)
IsAscii(c) ==
    \/ \E k \in 1..Len(Ascii) : Ascii[k] = c
    \/ \E k \in 1..Len(Control) : Control[k] = c
    \/ c = "\\x7f"

\* the characters str.isspace() holds of: what \s matches in a str pattern
\* and what str.strip() strips
Whitespace ==
    {"\t", "\n", "\\x0b", "\f", "\r", "\\x1c", "\\x1d", "\\x1e", "\\x1f", " ",
     "\\x85", "\\xa0", "\\u1680", "\\u2000", "\\u2001", "\\u2002", "\\u2003",
     "\\u2004", "\\u2005", "\\u2006", "\\u2007", "\\u2008", "\\u2009",
     "\\u200a", "\\u2028", "\\u2029", "\\u202f", "\\u205f", "\\u3000"}

\* Python's None, as a string no text is equal to
None == <<"None">>

\* s[i:] of Python, with i counted from 1
Drop(s, i) == SubSeq(s, i, Len(s))

\* s[:n] of Python
Take(s, n) == IF Len(s) <= n THEN s ELSE SubSeq(s, 1, n)

\* s[i:].startswith(p), with i counted from 1
StartsAt(s, i, p) ==
    /\ i >= 1
    /\ i + Len(p) - 1 <= Len(s)
    /\ SubSeq(s, i, i + Len(p) - 1) = p

\* p in s
Contains(s, p) == \E i \in 1..(Len(s) + 1) : StartsAt(s, i, p)

RECURSIVE Concat(_)
\* ''.join(parts)
Concat(parts) ==
    IF parts = <<>> THEN <<>> ELSE Head(parts) \o Concat(Tail(parts))

RECURSIVE JoinSpace(_)
\* ' '.join(parts)
JoinSpace(parts) ==
    IF parts = <<>> THEN <<>>
    ELSE IF Len(parts) = 1 THEN Head(parts)
    ELSE Head(parts) \o <<" ">> \o JoinSpace(Tail(parts))

RECURSIVE LStrip(_)
LStrip(s) ==
    IF s # <<>> /\ Head(s) \in Whitespace THEN LStrip(Tail(s)) ELSE s

RECURSIVE RStrip(_)
RStrip(s) ==
    IF s # <<>> /\ s[Len(s)] \in Whitespace
    THEN RStrip(SubSeq(s, 1, Len(s) - 1))
    ELSE s

\* str.strip()
Strip(s) == RStrip(LStrip(s))

(***************************************************************************)
(* fix_text_spacing: each re.sub is a left-to-right scan over              *)
(* non-overlapping matches.                                                *)
(***************************************************************************)
RECURSIVE SubLowerUpper(_)
\* re.sub(r'([a-z])([A-Z])', r'\1 \2', text)
SubLowerUpper(s) ==
    IF s = <<>> THEN <<>>
    ELSE IF Len(s) >= 2 /\ s[1] \in Lower /\ s[2] \in Upper
    THEN <<s[1], " ", s[2]>> \o SubLowerUpper(Drop(s, 3))
    ELSE <<s[1]>> \o SubLowerUpper(Tail(s))

RECURSIVE SubLetterCapitalNoLower(_)
\* the second pass with the trailing [a-z] of its pattern left out:
\* re.sub(r'([a-zA-Z])([A-Z])', r'\1 \2', text)
SubLetterCapitalNoLower(s) ==
    IF s = <<>> THEN <<>>
    ELSE IF Len(s) >= 2 /\ s[1] \in Letter /\ s[2] \in Upper
    THEN <<s[1], " ", s[2]>> \o SubLetterCapitalNoLower(Drop(s, 3))
    ELSE <<s[1]>> \o SubLetterCapitalNoLower(Tail(s))

RECURSIVE SubLetterCapital(_)
\* re.sub(r'([a-zA-Z])([A-Z][a-z])', r'\1 \2', text)
SubLetterCapital(s) ==
    IF s = <<>> THEN <<>>
    ELSE IF Len(s) >= 3 /\ s[1] \in Letter /\ s[2] \in Upper /\ s[3] \in Lower
    THEN <<s[1], " ", s[2], s[3]>> \o SubLetterCapital(Drop(s, 4))
    ELSE <<s[1]>> \o SubLetterCapital(Tail(s))

RECURSIVE SubStem(_, _)
\* re.sub(stem + r'([A-Z])', stem + r' \1', text)
SubStem(stem, s) ==
    IF s = <<>> THEN <<>>
    ELSE IF StartsAt(s, 1, stem) /\ Len(s) > Len(stem) /\ s[Len(stem) + 1] \in Upper
    THEN stem \o <<" ", s[Len(stem) + 1]>> \o SubStem(stem, Drop(s, Len(stem) + 2))
    ELSE <<s[1]>> \o SubStem(stem, Tail(s))

RECURSIVE SkipWhitespace(_)
SkipWhitespace(s) ==
    IF s # <<>> /\ Head(s) \in Whitespace THEN SkipWhitespace(Tail(s)) ELSE s

RECURSIVE NormalizeSpaces(_)
\* re.sub(r'\s+', ' ', text)
NormalizeSpaces(s) ==
    IF s = <<>> THEN <<>>
    ELSE IF s[1] \in Whitespace
    THEN <<" ">> \o NormalizeSpaces(SkipWhitespace(s))
    ELSE <<s[1]>> \o NormalizeSpaces(Tail(s))

StemCompany == <<"C","o","m","p","a","n","y">>
StemExpands == <<"E","x","p","a","n","d","s">>
StemAnnounces == <<"A","n","n","o","u","n","c","e","s">>
StemMillion == <<"M","i","l","l","i","o","n">>
StemManufacturing == <<"M","a","n","u","f","a","c","t","u","r","i","n","g">>

fix_text_spacing(text) ==
    LET t1 == SubLowerUpper(text)
        t2 == SubLetterCapital(t1)
        t3 == SubStem(StemCompany, t2)
        t4 == SubStem(StemExpands, t3)
        t5 == SubStem(StemAnnounces, t4)
        t6 == SubStem(StemMillion, t5)
        t7 == SubStem(StemManufacturing, t6)
    IN  NormalizeSpaces(t7)

(***************************************************************************)
(* extract_google_url                                                      *)
(***************************************************************************)
HexDigits == <<"0","1","2","3","4","5","6","7","8","9","A","B","C","D","E","F">>

IsHex(c) == c \in Digit \cup {"a","b","c","d","e","f","A","B","C","D","E","F"}

HexVal(c) ==
    CASE c \in Digit -> Ord(c) - 48
      [] c \in {"a","b","c","d","e","f"} -> Ord(c) - 87
      [] OTHER -> Ord(c) - 55

RECURSIVE unquote_to_bytes(_)
\* the bytes of the text: %XX with two hex digits is the byte XX, any other
\* ASCII character is its code.  A character outside ASCII, which ends the
\* run of ASCII that is decoded, is kept in c and has -1 for its byte.
unquote_to_bytes(s) ==
    IF s = <<>> THEN <<>>
    ELSE LET escape == s[1] = "%" /\ Len(s) >= 3 /\ IsHex(s[2]) /\ IsHex(s[3])
             byte == IF escape THEN [b |-> 16 * HexVal(s[2]) + HexVal(s[3]), c |-> ""]
                     ELSE [b |-> IF IsAscii(s[1]) THEN Ord(s[1]) ELSE -1, c |-> s[1]]
         IN  <<byte>> \o unquote_to_bytes(Drop(s, IF escape THEN 4 ELSE 2))

\* U+FFFD, which errors='replace' puts where the bytes are no UTF-8
Replacement == "\\ufffd"

\* the first character bytes.decode('utf-8', 'replace') makes of bs and the
\* number of bytes it takes: a well-formed sequence is its character; a byte
\* that begins none, or the longest run of bytes that begins one and does not
\* end it, is one replacement character
utf8_first(bs) ==
    LET b1 == bs[1].b
        In(k, lo, hi) == k <= Len(bs) /\ bs[k].b \in lo..hi
        need == CASE b1 \in 194..223 -> 2
                  [] b1 \in 224..239 -> 3
                  [] b1 \in 240..244 -> 4
                  [] OTHER -> 1
        lo2 == CASE b1 = 224 -> 160 [] b1 = 240 -> 144 [] OTHER -> 128
        hi2 == CASE b1 = 237 -> 159 [] b1 = 244 -> 143 [] OTHER -> 191
        good == IF need = 1 \/ ~In(2, lo2, hi2) THEN 1
                ELSE IF need = 2 \/ ~In(3, 128, 191) THEN 2
                ELSE IF need = 3 \/ ~In(4, 128, 191) THEN 3
                ELSE 4
        value == CASE need = 2 -> (b1 - 192) * 64 + (bs[2].b - 128)
                   [] need = 3 -> (b1 - 224) * 4096 + (bs[2].b - 128) * 64 + (bs[3].b - 128)
                   [] OTHER -> (b1 - 240) * 262144 + (bs[2].b - 128) * 4096
                               + (bs[3].b - 128) * 64 + (bs[4].b - 128)
    IN  IF b1 = -1 THEN [c |-> bs[1].c, used |-> 1]
        ELSE IF b1 < 128 THEN [c |-> Chr(b1), used |-> 1]
        ELSE IF need = 1 \/ good < need THEN [c |-> Replacement, used |-> good]
        ELSE [c |-> Chr(value), used |-> need]

RECURSIVE utf8_decode(_)
\* bytes.decode('utf-8', 'replace')
utf8_decode(bs) ==
    IF bs = <<>> THEN <<>>
    ELSE LET first == utf8_first(bs)
         IN  <<first.c>> \o utf8_decode(Drop(bs, first.used + 1))

\* urllib.parse.unquote(s): the escapes are bytes of UTF-8
unquote(s) == utf8_decode(unquote_to_bytes(s))

RECURSIVE RunNotAmp(_)
\* the longest prefix matching [^&]*
RunNotAmp(s) ==
    IF s = <<>> \/ Head(s) = "&" THEN <<>> ELSE <<Head(s)>> \o RunNotAmp(Tail(s))

UrlEq == <<"u","r","l","=">>

RedirectIndicator ==
    <<"g","o","o","g","l","e",".","c","o","m","/","u","r","l","?">>

Http == <<"h","t","t","p">>

\* whether re.search(r'url=([^&]+)', url) matches
UrlParamMatches(url) ==
    \E i \in 1..Len(url) : StartsAt(url, i, UrlEq) /\ RunNotAmp(Drop(url, i + 4)) # <<>>

\* group(1) of the leftmost match of r'url=([^&]+)'
UrlParamGroup(url) ==
    LET i == CHOOSE i \in 1..Len(url) :
                 /\ StartsAt(url, i, UrlEq) /\ RunNotAmp(Drop(url, i + 4)) # <<>>
                 /\ \A j \in 1..(i - 1) :
                        ~(StartsAt(url, j, UrlEq) /\ RunNotAmp(Drop(url, j + 4)) # <<>>)
    IN  RunNotAmp(Drop(url, i + 4))

extract_google_url(url) ==
    IF Contains(url, RedirectIndicator)
    THEN IF UrlParamMatches(url) THEN unquote(UrlParamGroup(url)) ELSE None
    ELSE IF StartsAt(url, 1, Http) THEN url
    ELSE None

(***************************************************************************)
(* The pattern rules: extract_job_numbers, extract_company_name,           *)
(* extract_location_from_headline and create_detailed_summary.  Every      *)
(* pattern is compiled with re.IGNORECASE, so words are looked for in the  *)
(* lower-cased text.                                                       *)
(***************************************************************************)
\* the capital letters above chr(127): all of chr(192) .. chr(222) but the
\* multiplication sign
UpperLatin ==
    {"\\xc0", "\\xc1", "\\xc2", "\\xc3", "\\xc4", "\\xc5", "\\xc6", "\\xc7",
     "\\xc8", "\\xc9", "\\xca", "\\xcb", "\\xcc", "\\xcd", "\\xce", "\\xcf",
     "\\xd0", "\\xd1", "\\xd2", "\\xd3", "\\xd4", "\\xd5", "\\xd6", "\\xd8",
     "\\xd9", "\\xda", "\\xdb", "\\xdc", "\\xdd", "\\xde"}

\* str.lower(), character by character
LowerChar(c) == IF c \in Upper \cup UpperLatin THEN Chr(Ord(c) + 32) ELSE c

LowerCase(s) == [k \in 1..Len(s) |-> LowerChar(s[k])]

RECURSIVE WsRun(_, _)
\* how many whitespace characters stand at position p and after it
WsRun(s, p) ==
    IF p >= 1 /\ p <= Len(s) /\ s[p] \in Whitespace THEN 1 + WsRun(s, p + 1) ELSE 0

RECURSIVE DigitRun(_, _)
\* how many digits stand at position p and after it
DigitRun(s, p) ==
    IF p >= 1 /\ p <= Len(s) /\ s[p] \in Digit THEN 1 + DigitRun(s, p + 1) ELSE 0

\* the characters above chr(127) that \w matches in a str pattern: the
\* letters and the numbers of Latin-1
WordLatin ==
    {"\\xaa", "\\xb2", "\\xb3", "\\xb5", "\\xb9", "\\xba", "\\xbc", "\\xbd",
     "\\xbe", "\\xc0", "\\xc1", "\\xc2", "\\xc3", "\\xc4", "\\xc5", "\\xc6",
     "\\xc7", "\\xc8", "\\xc9", "\\xca", "\\xcb", "\\xcc", "\\xcd", "\\xce",
     "\\xcf", "\\xd0", "\\xd1", "\\xd2", "\\xd3", "\\xd4", "\\xd5", "\\xd6",
     "\\xd8", "\\xd9", "\\xda", "\\xdb", "\\xdc", "\\xdd", "\\xde", "\\xdf",
     "\\xe0", "\\xe1", "\\xe2", "\\xe3", "\\xe4", "\\xe5", "\\xe6", "\\xe7",
     "\\xe8", "\\xe9", "\\xea", "\\xeb", "\\xec", "\\xed", "\\xee", "\\xef",
     "\\xf0", "\\xf1", "\\xf2", "\\xf3", "\\xf4", "\\xf5", "\\xf6", "\\xf8",
     "\\xf9", "\\xfa", "\\xfb", "\\xfc", "\\xfd", "\\xfe", "\\xff"}

\* \w
IsWordChar(c) == c \in Letter \cup Digit \cup {"_"} \cup WordLatin

\* \b before position p
WordBoundary(s, p) ==
    (p > 1 /\ p - 1 <= Len(s) /\ IsWordChar(s[p - 1]))
        # (p >= 1 /\ p <= Len(s) /\ IsWordChar(s[p]))

\* some word of the sequence words starts at position p
AnyStartsAt(l, p, words) == \E k \in 1..Len(words) : StartsAt(l, p, words[k])

\* the first word of the sequence words that starts at position p
FirstStartingAt(l, p, words) ==
    words[CHOOSE k \in 1..Len(words) :
              /\ StartsAt(l, p, words[k])
              /\ \A j \in 1..(k - 1) : ~StartsAt(l, p, words[j])]

\* the least element of a non-empty set of numbers
Least(S) == CHOOSE x \in S : \A y \in S : x <= y

RECURSIVE CommaGroups(_, _)
\* how many groups ,\d{3} stand at position p
CommaGroups(s, p) ==
    IF p + 3 <= Len(s) /\ s[p] = "," /\ DigitRun(s, p + 1) >= 3
    THEN 1 + CommaGroups(s, p + 4)
    ELSE 0

\* the position after the longest match of \d{1,3}(?:,\d{3})* at position p
NumberEnd(s, p) ==
    LET d == IF DigitRun(s, p) > 3 THEN 3 ELSE DigitRun(s, p)
    IN  p + d + 4 * CommaGroups(s, p + d)

JobWords == <<<<"j","o","b">>, <<"p","o","s","i","t","i","o","n">>, <<"e","m","p","l","o","y","e",
        "e">>, <<"w","o","r","k","e","r">>>>

\* \s*(?:new\s+)?(?:jobs?|positions?|employees?|workers?) matches at position p
JobTail(l, p) ==
    LET q == p + WsRun(l, p)
    IN  \/ AnyStartsAt(l, q, JobWords)
        \/ /\ StartsAt(l, q, <<"n","e","w">>)
           /\ WsRun(l, q + 3) >= 1
           /\ AnyStartsAt(l, q + 3 + WsRun(l, q + 3), JobWords)

\* the ends e of a match of \d{1,3}(?:,\d{3})* at position p after which the
\* job words follow
CountedJobEnds(s, l, p) ==
    {e \in (p + 1)..(Len(s) + 1) :
        /\ \E d \in 1..3 : \E g \in 0..Len(s) :
              /\ d <= DigitRun(s, p)
              /\ g <= CommaGroups(s, p + d)
              /\ e = p + d + 4 * g
        /\ JobTail(l, e)}

\* the end the regex engine finds first: most digits, then most groups
CountedJobEnd(s, l, p) ==
    LET ends == CountedJobEnds(s, l, p)
        digits(e) == CHOOSE d \in 1..3 : \E g \in 0..Len(s) :
                        d <= DigitRun(s, p) /\ g <= CommaGroups(s, p + d) /\ e = p + d + 4 * g
    IN  CHOOSE e \in ends : \A f \in ends :
            digits(e) > digits(f) \/ (digits(e) = digits(f) /\ e >= f)

CreateWords == <<<<"c","r","e","a","t","e">>, <<"c","r","e","a","t","i","n","g">>, <<"a","d",
        "d">>, <<"a","d","d","i","n","g">>, <<"h","i","r","e">>, <<"h","i","r","i","n","g">>>>

EmployWords == <<<<"e","m","p","l","o","y">>, <<"e","m","p","l","o","y","i","n","g">>>>

\* where the number starts when \s+(?:up\s+to\s+)?(\d... matches at position p,
\* and 0 when it does not
NumberAfter(l, p) ==
    LET q == p + WsRun(l, p)
        t == q + 2 + WsRun(l, q + 2)
        u == t + 2 + WsRun(l, t + 2)
    IN  IF WsRun(l, p) = 0 THEN 0
        ELSE IF /\ StartsAt(l, q, <<"u","p">>) /\ WsRun(l, q + 2) >= 1
                /\ StartsAt(l, t, <<"t","o">>) /\ WsRun(l, t + 2) >= 1
                /\ DigitRun(l, u) >= 1
        THEN u
        ELSE IF DigitRun(l, q) >= 1 THEN q
        ELSE 0

\* the positions where one of the words, then \s+(?:up\s+to\s+)? and a number
\* match
WordThenNumberAt(l, words) ==
    {p \in 1..Len(l) :
        \E k \in 1..Len(words) :
            StartsAt(l, p, words[k]) /\ NumberAfter(l, p + Len(words[k])) # 0}

\* group(1) of the leftmost match of (?:words)\s+(?:up\s+to\s+)?(\d{1,3}(?:,\d{3})*)
NumberAfterWords(s, l, words) ==
    LET p == Least(WordThenNumberAt(l, words))
        k == CHOOSE k \in 1..Len(words) :
                 /\ StartsAt(l, p, words[k]) /\ NumberAfter(l, p + Len(words[k])) # 0
                 /\ \A j \in 1..(k - 1) :
                        ~(StartsAt(l, p, words[j]) /\ NumberAfter(l, p + Len(words[j])) # 0)
        n == NumberAfter(l, p + Len(words[k]))
    IN  SubSeq(s, n, NumberEnd(s, n) - 1)

WorkforceOf(l) ==
    {p \in 1..Len(l) :
        /\ StartsAt(l, p, <<"w","o","r","k","f","o","r","c","e">>)
        /\ WsRun(l, p + 9) >= 1
        /\ StartsAt(l, p + 9 + WsRun(l, p + 9), <<"o","f">>)
        /\ NumberAfter(l, p + 9 + WsRun(l, p + 9) + 2) = p + 9 + WsRun(l, p + 9) + 2
                + WsRun(l, p + 9 + WsRun(l, p + 9) + 2)}

extract_job_numbers(text) ==
    LET l == LowerCase(text)
        counted == {p \in 1..Len(text) :
                       text[p] \in Digit /\ CountedJobEnds(text, l, p) # {}}
    IN  IF counted # {}
        THEN SubSeq(text, Least(counted), CountedJobEnd(text, l, Least(counted)) - 1)
        ELSE IF WordThenNumberAt(l, CreateWords) # {}
        THEN NumberAfterWords(text, l, CreateWords)
        ELSE IF WordThenNumberAt(l, EmployWords) # {}
        THEN NumberAfterWords(text, l, EmployWords)
        ELSE IF WorkforceOf(l) # {}
        THEN LET p == Least(WorkforceOf(l))
                 n == NumberAfter(l, p + 9 + WsRun(l, p + 9) + 2)
             IN  SubSeq(text, n, NumberEnd(text, n) - 1)
        ELSE <<>>

\* [A-Za-z0-9\s&\-\.\']
CompanyChars == Letter \cup Digit \cup Whitespace \cup {"&", "-", ".", "'"}

RECURSIVE ClassRun(_, _, _)
\* how many characters of the class stand at position p and after it
ClassRun(s, p, class) ==
    IF p >= 1 /\ p <= Len(s) /\ s[p] \in class THEN 1 + ClassRun(s, p + 1, class) ELSE 0

\* the corporate suffixes of the company pattern, in the order of the
\* alternation; dot marks the ones written with \.?
CompanySuffixes ==
    <<[w |-> <<"i","n","c">>, dot |-> TRUE], [w |-> <<"l","l","c">>, dot |-> FALSE],
      [w |-> <<"c","o","r","p">>, dot |-> TRUE], [w |-> <<"c","o","r","p","o","r","a","t","i","o",
              "n">>, dot |-> FALSE],
      [w |-> <<"c","o","m","p","a","n","y">>, dot |-> FALSE], [w |-> <<"c","o">>, dot |-> TRUE],
      [w |-> <<"l","t","d">>, dot |-> TRUE], [w |-> <<"l","i","m","i","t","e","d">>, dot |-> FALSE],
      [w |-> <<"g","r","o","u","p">>, dot |-> FALSE], [w |-> <<"h","o","l","d","i","n","g",
              "s">>, dot |-> FALSE],
      [w |-> <<"i","n","d","u","s","t","r","i","e","s">>, dot |-> FALSE], [w |-> <<"m","a","n","u",
              "f","a","c","t","u","r","i","n","g">>, dot |-> FALSE],
      [w |-> <<"l","o","g","i","s","t","i","c","s">>, dot |-> FALSE], [w |-> <<"p","r","o","p","e",
              "r","t","i","e","s">>, dot |-> FALSE],
      [w |-> <<"p","a","r","t","n","e","r","s">>, dot |-> FALSE], [w |-> <<"e","n","t","e","r","p",
              "r","i","s","e","s">>, dot |-> FALSE],
      [w |-> <<"s","y","s","t","e","m","s">>, dot |-> FALSE], [w |-> <<"t","e","c","h","n","o","l",
              "o","g","i","e","s">>, dot |-> FALSE],
      [w |-> <<"s","o","l","u","t","i","o","n","s">>, dot |-> FALSE]>>

\* \s*(?:Inc\.?|LLC|...|Solutions)\b matches at position p
SuffixTail(s, l, p) ==
    LET q == p + WsRun(s, p)
    IN  \E k \in 1..Len(CompanySuffixes) :
            LET e == q + Len(CompanySuffixes[k].w)
            IN  /\ StartsAt(l, q, CompanySuffixes[k].w)
                /\ \/ WordBoundary(s, e)
                   \/ /\ CompanySuffixes[k].dot
                      /\ e <= Len(s) /\ s[e] = "."
                      /\ WordBoundary(s, e + 1)

\* the ends of the lazy group [A-Z][A-Za-z0-9\s&\-\.\']+? begun at position i
\* for which Follows holds of the position after the group
GroupEnds(s, i, Follows(_)) ==
    {p \in (i + 2)..(i + 1 + ClassRun(s, i + 1, CompanyChars)) : Follows(p)}

ActionVerbs ==
    <<<<"a","n","n","o","u","n","c","e","s">>, <<"e","x","p","a","n","d","s">>, <<"o","p","e","n",
            "s">>, <<"p","l","a","n","s">>, <<"i","n","v","e","s","t","s">>, <<"d","e","v","e","l",
            "o","p","s">>,
      <<"a","c","q","u","i","r","e","s">>, <<"t","o"," ","b","u","i","l","d">>, <<"w","i","l","l",
              " ","b","u","i","l","d">>>>

\* \s+(?:Announces|...|Will Build) matches at position p
VerbTail(l, p, verbs) ==
    WsRun(l, p) >= 1 /\ AnyStartsAt(l, p + WsRun(l, p), verbs)

Quotes == {"\"", "'"}

\* company.strip(), its whitespace collapsed
CleanCompany(group) == NormalizeSpaces(Strip(group))

MinCompany == 3

MaxCompany == 50

AcceptCompany(company) == MinCompany < Len(company) /\ Len(company) < MaxCompany

\* the three patterns of extract_company_name: group(1) of the leftmost match,
\* or None
CompanyWithSuffix(s, l) ==
    LET starts == {i \in 1..Len(s) :
                      s[i] \in Letter /\ GroupEnds(s, i, LAMBDA p : SuffixTail(s, l, p)) # {}}
    IN  IF starts = {} THEN None
        ELSE SubSeq(s, Least(starts),
                    Least(GroupEnds(s, Least(starts), LAMBDA p : SuffixTail(s, l, p))) - 1)

CompanyBeforeVerb(s, l) ==
    LET ends == IF s # <<>> /\ s[1] \in Letter
                THEN GroupEnds(s, 1, LAMBDA p : VerbTail(l, p, ActionVerbs))
                ELSE {}
    IN  IF ends = {} THEN None ELSE SubSeq(s, 1, Least(ends) - 1)

CompanyInQuotes(s) ==
    LET starts == {i \in 1..Len(s) :
                      /\ s[i] \in Quotes
                      /\ i + 1 <= Len(s) /\ s[i + 1] \in Letter
                      /\ GroupEnds(s, i + 1, LAMBDA p : p <= Len(s) /\ s[p] \in Quotes) # {}}
    IN  IF starts = {} THEN None
        ELSE SubSeq(s, Least(starts) + 1,
                    Least(GroupEnds(s, Least(starts) + 1,
                                    LAMBDA p : p <= Len(s) /\ s[p] \in Quotes)) - 1)

extract_company_name(text) ==
    LET s == fix_text_spacing(text)
        l == LowerCase(s)
        c1 == CompanyWithSuffix(s, l)
        c2 == CompanyBeforeVerb(s, l)
        c3 == CompanyInQuotes(s)
    IN  IF c1 # None /\ AcceptCompany(CleanCompany(c1)) THEN CleanCompany(c1)
        ELSE IF c2 # None /\ AcceptCompany(CleanCompany(c2)) THEN CleanCompany(c2)
        ELSE IF c3 # None /\ AcceptCompany(CleanCompany(c3)) THEN CleanCompany(c3)
        ELSE <<>>

\* the suffixes extract_location_from_headline removes with the name before
\* them, in the order of the alternation
LocationSuffixes ==
    <<[w |-> <<"i","n","c">>, dot |-> TRUE], [w |-> <<"l","l","c">>, dot |-> FALSE],
      [w |-> <<"c","o","r","p">>, dot |-> TRUE], [w |-> <<"c","o","r","p","o","r","a","t","i","o",
              "n">>, dot |-> FALSE],
      [w |-> <<"c","o","m","p","a","n","y">>, dot |-> FALSE], [w |-> <<"c","o">>, dot |-> TRUE],
      [w |-> <<"l","t","d">>, dot |-> TRUE]>>

\* some suffix matches after the whitespace at position p
NameTail(l, p) ==
    \E k \in 1..Len(LocationSuffixes) : StartsAt(l, p + WsRun(l, p), LocationSuffixes[k].w)

\* the position after the match of \s*(?:Inc\.?|...|Ltd\.?) at position p
NameTailEnd(s, l, p) ==
    LET q == p + WsRun(l, p)
        k == CHOOSE k \in 1..Len(LocationSuffixes) :
                 /\ StartsAt(l, q, LocationSuffixes[k].w)
                 /\ \A j \in 1..(k - 1) : ~StartsAt(l, q, LocationSuffixes[j].w)
        e == q + Len(LocationSuffixes[k].w)
    IN  IF LocationSuffixes[k].dot /\ e <= Len(s) /\ s[e] = "." THEN e + 1 ELSE e

RECURSIVE RemoveCompanyNames(_, _, _)
\* re.sub(r'([A-Z][A-Za-z0-9\s&\-\.\']+?)\s*(?:Inc\.?|...|Ltd\.?)', '', text), from
\* position pos on
RemoveCompanyNames(s, l, pos) ==
    IF pos > Len(s) THEN <<>>
    ELSE LET ends == IF s[pos] \in Letter
                     THEN GroupEnds(s, pos, LAMBDA p : NameTail(l, p))
                     ELSE {}
         IN  IF ends # {}
             THEN RemoveCompanyNames(s, l, NameTailEnd(s, l, Least(ends)))
             ELSE <<s[pos]>> \o RemoveCompanyNames(s, l, pos + 1)

CommonWords ==
    <<<<"a","n","n","o","u","n","c","e","s">>, <<"e","x","p","a","n","d","s">>, <<"o","p","e","n",
            "s">>, <<"p","l","a","n","s">>, <<"m","i","l","l","i","o","n">>, <<"m","a","n","u","f",
            "a","c","t","u","r","i","n","g">>,
      <<"e","x","p","a","n","s","i","o","n">>, <<"o","p","e","r","a","t","i","o","n","s">>, <<"f",
              "a","c","i","l","i","t","y">>>>

\* \b(?:Announces|...|Facility)\b matches at position p
CommonWordAt(s, l, p) ==
    /\ WordBoundary(s, p)
    /\ \E k \in 1..Len(CommonWords) :
           StartsAt(l, p, CommonWords[k]) /\ WordBoundary(s, p + Len(CommonWords[k]))

CommonWordEnd(s, l, p) ==
    p + Len(CommonWords[CHOOSE k \in 1..Len(CommonWords) :
               /\ StartsAt(l, p, CommonWords[k]) /\ WordBoundary(s, p + Len(CommonWords[k]))
               /\ \A j \in 1..(k - 1) :
                      ~(StartsAt(l, p, CommonWords[j])
                        /\ WordBoundary(s, p + Len(CommonWords[j])))])

RECURSIVE RemoveCommonWords(_, _, _)
\* re.sub(r'\b(?:Announces|...|Facility)\b', '', text), from position pos on
RemoveCommonWords(s, l, pos) ==
    IF pos > Len(s) THEN <<>>
    ELSE IF CommonWordAt(s, l, pos)
    THEN RemoveCommonWords(s, l, CommonWordEnd(s, l, pos))
    ELSE <<s[pos]>> \o RemoveCommonWords(s, l, pos + 1)

RECURSIVE RemoveNumbers(_, _)
\* re.sub(r'\b\d+\b', '', city), from position pos on
RemoveNumbers(s, pos) ==
    IF pos > Len(s) THEN <<>>
    ELSE IF /\ s[pos] \in Digit /\ WordBoundary(s, pos)
            /\ WordBoundary(s, pos + DigitRun(s, pos))
    THEN RemoveNumbers(s, pos + DigitRun(s, pos))
    ELSE <<s[pos]>> \o RemoveNumbers(s, pos + 1)

\* the states dictionary, in its order
States ==
    <<[abbr |-> <<"A","L">>, full |-> <<"A","l","a","b","a","m","a">>],
      [abbr |-> <<"A","K">>, full |-> <<"A","l","a","s","k","a">>],
      [abbr |-> <<"A","Z">>, full |-> <<"A","r","i","z","o","n","a">>],
      [abbr |-> <<"A","R">>, full |-> <<"A","r","k","a","n","s","a","s">>],
      [abbr |-> <<"C","A">>, full |-> <<"C","a","l","i","f","o","r","n","i","a">>],
      [abbr |-> <<"C","O">>, full |-> <<"C","o","l","o","r","a","d","o">>],
      [abbr |-> <<"C","T">>, full |-> <<"C","o","n","n","e","c","t","i","c","u","t">>],
      [abbr |-> <<"D","E">>, full |-> <<"D","e","l","a","w","a","r","e">>],
      [abbr |-> <<"F","L">>, full |-> <<"F","l","o","r","i","d","a">>],
      [abbr |-> <<"G","A">>, full |-> <<"G","e","o","r","g","i","a">>],
      [abbr |-> <<"H","I">>, full |-> <<"H","a","w","a","i","i">>],
      [abbr |-> <<"I","D">>, full |-> <<"I","d","a","h","o">>],
      [abbr |-> <<"I","L">>, full |-> <<"I","l","l","i","n","o","i","s">>],
      [abbr |-> <<"I","N">>, full |-> <<"I","n","d","i","a","n","a">>],
      [abbr |-> <<"I","A">>, full |-> <<"I","o","w","a">>],
      [abbr |-> <<"K","S">>, full |-> <<"K","a","n","s","a","s">>],
      [abbr |-> <<"K","Y">>, full |-> <<"K","e","n","t","u","c","k","y">>],
      [abbr |-> <<"L","A">>, full |-> <<"L","o","u","i","s","i","a","n","a">>],
      [abbr |-> <<"M","E">>, full |-> <<"M","a","i","n","e">>],
      [abbr |-> <<"M","D">>, full |-> <<"M","a","r","y","l","a","n","d">>],
      [abbr |-> <<"M","A">>, full |-> <<"M","a","s","s","a","c","h","u","s","e","t","t","s">>],
      [abbr |-> <<"M","I">>, full |-> <<"M","i","c","h","i","g","a","n">>],
      [abbr |-> <<"M","N">>, full |-> <<"M","i","n","n","e","s","o","t","a">>],
      [abbr |-> <<"M","S">>, full |-> <<"M","i","s","s","i","s","s","i","p","p","i">>],
      [abbr |-> <<"M","O">>, full |-> <<"M","i","s","s","o","u","r","i">>],
      [abbr |-> <<"M","T">>, full |-> <<"M","o","n","t","a","n","a">>],
      [abbr |-> <<"N","E">>, full |-> <<"N","e","b","r","a","s","k","a">>],
      [abbr |-> <<"N","V">>, full |-> <<"N","e","v","a","d","a">>],
      [abbr |-> <<"N","H">>, full |-> <<"N","e","w"," ","H","a","m","p","s","h","i","r","e">>],
      [abbr |-> <<"N","J">>, full |-> <<"N","e","w"," ","J","e","r","s","e","y">>],
      [abbr |-> <<"N","M">>, full |-> <<"N","e","w"," ","M","e","x","i","c","o">>],
      [abbr |-> <<"N","Y">>, full |-> <<"N","e","w"," ","Y","o","r","k">>],
      [abbr |-> <<"N","C">>, full |-> <<"N","o","r","t","h"," ","C","a","r","o","l","i","n","a">>],
      [abbr |-> <<"N","D">>, full |-> <<"N","o","r","t","h"," ","D","a","k","o","t","a">>],
      [abbr |-> <<"O","H">>, full |-> <<"O","h","i","o">>],
      [abbr |-> <<"O","K">>, full |-> <<"O","k","l","a","h","o","m","a">>],
      [abbr |-> <<"O","R">>, full |-> <<"O","r","e","g","o","n">>],
      [abbr |-> <<"P","A">>, full |-> <<"P","e","n","n","s","y","l","v","a","n","i","a">>],
      [abbr |-> <<"R","I">>, full |-> <<"R","h","o","d","e"," ","I","s","l","a","n","d">>],
      [abbr |-> <<"S","C">>, full |-> <<"S","o","u","t","h"," ","C","a","r","o","l","i","n","a">>],
      [abbr |-> <<"S","D">>, full |-> <<"S","o","u","t","h"," ","D","a","k","o","t","a">>],
      [abbr |-> <<"T","N">>, full |-> <<"T","e","n","n","e","s","s","e","e">>],
      [abbr |-> <<"T","X">>, full |-> <<"T","e","x","a","s">>],
      [abbr |-> <<"U","T">>, full |-> <<"U","t","a","h">>],
      [abbr |-> <<"V","T">>, full |-> <<"V","e","r","m","o","n","t">>],
      [abbr |-> <<"V","A">>, full |-> <<"V","i","r","g","i","n","i","a">>],
      [abbr |-> <<"W","A">>, full |-> <<"W","a","s","h","i","n","g","t","o","n">>],
      [abbr |-> <<"W","V">>, full |-> <<"W","e","s","t"," ","V","i","r","g","i","n","i","a">>],
      [abbr |-> <<"W","I">>, full |-> <<"W","i","s","c","o","n","s","i","n">>],
      [abbr |-> <<"W","Y">>, full |-> <<"W","y","o","m","i","n","g">>]>>

\* [a-zA-Z\s]
CityChars == Letter \cup Whitespace

\* ,?\s*form\b matches at position p
StateTail(s, l, p, form) ==
    LET c == IF p <= Len(s) /\ s[p] = "," THEN p + 1 ELSE p
        q == c + WsRun(s, c)
    IN  StartsAt(l, q, LowerCase(form)) /\ WordBoundary(s, q + Len(form))

CityEnds(s, l, i, form) ==
    {p \in (i + 2)..(i + 1 + ClassRun(s, i + 1, CityChars)) : StateTail(s, l, p, form)}

\* group(1) of the leftmost match of ([A-Z][a-zA-Z\s]+?),?\s*form\b, or None
CityBefore(s, l, form) ==
    IF ~Contains(l, LowerCase(form)) THEN None
    ELSE LET starts == {i \in 1..Len(s) : s[i] \in Letter /\ CityEnds(s, l, i, form) # {}}
         IN  IF starts = {} THEN None
             ELSE SubSeq(s, Least(starts), Least(CityEnds(s, l, Least(starts), form)) - 1)

\* the city name cleaned
CleanCity(group) == Strip(NormalizeSpaces(RemoveNumbers(Strip(group), 1)))

MinCity == 2

CommaSpace == <<",", " ">>

\* the forms the loop tries, in its order: form 2k-1 is the abbreviation of
\* state k and form 2k its full name
StateForm(f) ==
    IF f % 2 = 1 THEN States[(f + 1) \div 2].abbr ELSE States[f \div 2].full

\* form f gives a city the loop accepts
GivesCity(s, l, f) ==
    LET group == CityBefore(s, l, StateForm(f))
    IN  group # None /\ CleanCity(group) # <<>> /\ Len(CleanCity(group)) > MinCity

\* the loop over the states and their two forms: the first form that gives a
\* city decides
Location(s, l) ==
    LET found == {f \in 1..(2 * Len(States)) : GivesCity(s, l, f)}
    IN  IF found = {} THEN <<>>
        ELSE CleanCity(CityBefore(s, l, StateForm(Least(found))))
             \o CommaSpace \o States[(Least(found) + 1) \div 2].full

extract_location_from_headline(text) ==
    LET t0 == fix_text_spacing(text)
        t1 == RemoveCompanyNames(t0, LowerCase(t0), 1)
        t2 == RemoveCommonWords(t1, LowerCase(t1), 1)
    IN  Location(t2, LowerCase(t2))

\* The text of a fetched article is never inspected beyond its length and
\* whether it holds the words "Could not fetch": content is the record of the
\* two.
Content(len, could_not_fetch) == [len |-> len, could_not_fetch |-> could_not_fetch]

SummaryVerbs == <<<<"a","n","n","o","u","n","c","e","s">>, <<"e","x","p","a","n","d","s">>, <<"o",
        "p","e","n","s">>>>

RECURSIVE CommaDigitsEnd(_, _)
\* the position after the longest match of (?:,\d+)* at position p
CommaDigitsEnd(s, p) ==
    IF p <= Len(s) /\ s[p] = "," /\ DigitRun(s, p + 1) >= 1
    THEN CommaDigitsEnd(s, p + 1 + DigitRun(s, p + 1))
    ELSE p

\* the position after the longest match of \d+(?:,\d+)* at position p
AmountEnd(s, p) == CommaDigitsEnd(s, p + DigitRun(s, p))

\* group(0) of the leftmost match of \$(\d+(?:,\d+)*(?:\.\d+)?)\s*(million|billion)?,
\* or None
InvestmentMatch(s, l) ==
    LET starts == {i \in 1..Len(s) : s[i] = "$" /\ DigitRun(s, i + 1) >= 1}
        i == Least(starts)
        a == AmountEnd(s, i + 1)
        d == IF a <= Len(s) /\ s[a] = "." /\ DigitRun(s, a + 1) >= 1
             THEN a + 1 + DigitRun(s, a + 1) ELSE a
        w == d + WsRun(s, d)
        e == IF StartsAt(l, w, <<"m","i","l","l","i","o","n">>) \/ StartsAt(l, w, <<"b","i","l","l",
                "i","o","n">>) THEN w + 7 ELSE w
    IN  IF starts = {} THEN None ELSE SubSeq(s, i, e - 1)

SummaryJobWords == <<<<"j","o","b">>, <<"p","o","s","i","t","i","o","n">>>>

\* where the job word starts when \s*(?:new\s+)?(?:jobs?|positions?) matches at
\* position p, and 0 when it does not
JobWordAfter(l, p) ==
    LET q == p + WsRun(l, p)
        n == q + 3 + WsRun(l, q + 3)
    IN  IF AnyStartsAt(l, q, SummaryJobWords) THEN q
        ELSE IF /\ StartsAt(l, q, <<"n","e","w">>) /\ WsRun(l, q + 3) >= 1
                /\ AnyStartsAt(l, n, SummaryJobWords)
        THEN n
        ELSE 0

\* group(0) of the leftmost match of (\d+(?:,\d+)*)\s*(?:new\s+)?(?:jobs?|positions?),
\* or None
JobsMatch(s, l) ==
    LET starts == {i \in 1..Len(s) :
                      s[i] \in Digit /\ JobWordAfter(l, AmountEnd(s, i)) # 0}
        i == Least(starts)
        w == JobWordAfter(l, AmountEnd(s, i))
        e == w + Len(FirstStartingAt(l, w, SummaryJobWords))
    IN  IF starts = {} THEN None
        ELSE SubSeq(s, i, IF e <= Len(l) /\ l[e] = "s" THEN e ELSE e - 1)

\* the sentence about a match of the headline, when there is one
Sentence(before, found) ==
    IF found # None THEN before \o found \o <<"."," ">> ELSE <<>>

\* the location given, else the one found in the headline, else none
Where(location, found) ==
    IF location # <<>> THEN <<"i","n"," ">> \o location \o <<"."," ">>
    ELSE IF found # <<>> THEN <<"i","n"," ">> \o found \o <<"."," ">>
    ELSE <<"a","t"," ","a"," ","n","e","w"," ","l","o","c","a","t","i","o","n","."," ">>

\* the function from line 516 on: h is the headline with its spacing fixed and
\* l is headline.lower()
detailed_summary(h, l, company, location, content) ==
    LET ends == IF h # <<>> /\ h[1] \in Letter
                THEN GroupEnds(h, 1, LAMBDA p : VerbTail(l, p, SummaryVerbs))
                ELSE {}
        who == IF company # <<>> THEN company \o <<" ">>
               ELSE IF ends # {} THEN Strip(SubSeq(h, 1, Least(ends) - 1)) \o <<" ">>
               ELSE <<"T","h","e"," ","c","o","m","p","a","n","y"," ">>
        action == IF Contains(l, <<"e","x","p","a","n","d","s">>) THEN <<"i","s"," ","e","x","p",
                "a","n","d","i","n","g"," ","i","t","s"," ","o","p","e","r","a","t","i","o","n","s",
                " ">>
                  ELSE IF Contains(l, <<"a","n","n","o","u","n","c","e","s">>) /\ Contains(l, <<"e",
                          "x","p","a","n","s","i","o","n">>)
                  THEN <<"h","a","s"," ","a","n","n","o","u","n","c","e","d"," ","p","l","a","n",
                          "s"," ","f","o","r"," ","a"," ","m","a","j","o","r"," ","e","x","p","a",
                          "n","s","i","o","n"," ">>
                  ELSE IF Contains(l, <<"o","p","e","n","s">>) THEN <<"i","s"," ","o","p","e","n",
                          "i","n","g"," ","a"," ","n","e","w"," ","f","a","c","i","l","i","t","y",
                          " ">>
                  ELSE IF Contains(l, <<"i","n","v","e","s","t","s">>) THEN <<"i","s"," ","m","a",
                          "k","i","n","g"," ","a"," ","s","i","g","n","i","f","i","c","a","n","t",
                          " ","i","n","v","e","s","t","m","e","n","t"," ">>
                  ELSE IF Contains(l, <<"d","e","v","e","l","o","p","s">>) THEN <<"i","s"," ","d",
                          "e","v","e","l","o","p","i","n","g"," ","n","e","w"," ","f","a","c","i",
                          "l","i","t","i","e","s"," ">>
                  ELSE <<"h","a","s"," ","a","n","n","o","u","n","c","e","d"," ","n","e","w"," ",
                          "i","n","d","u","s","t","r","i","a","l"," ","d","e","v","e","l","o","p",
                          "m","e","n","t"," ">>
        facility == IF Contains(l, <<"w","a","r","e","h","o","u","s","e">>) THEN <<"w","i","t","h",
                " ","a"," ","n","e","w"," ","w","a","r","e","h","o","u","s","e"," ","f","a","c","i",
                "l","i","t","y"," ">>
                    ELSE IF Contains(l, <<"d","i","s","t","r","i","b","u","t","i","o",
                            "n">>) THEN <<"w","i","t","h"," ","a"," ","d","i","s","t","r","i","b",
                            "u","t","i","o","n"," ","c","e","n","t","e","r"," ">>
                    ELSE IF Contains(l, <<"m","a","n","u","f","a","c","t","u","r","i","n",
                            "g">>) THEN <<"w","i","t","h"," ","m","a","n","u","f","a","c","t","u",
                            "r","i","n","g"," ","o","p","e","r","a","t","i","o","n","s"," ">>
                    ELSE IF Contains(l, <<"l","o","g","i","s","t","i","c","s">>) THEN <<"w","i","t",
                            "h"," ","l","o","g","i","s","t","i","c","s"," ","f","a","c","i","l","i",
                            "t","i","e","s"," ">>
                    ELSE <<>>
        where == Where(location, extract_location_from_headline(h))
        investment == Sentence(<<"T","h","e"," ","p","r","o","j","e","c","t"," ","r","e","p","r",
                "e","s","e","n","t","s"," ","a","n"," ","i","n","v","e","s","t","m","e","n","t"," ",
                "o","f"," ">>,
                               InvestmentMatch(h, l))
        created == Sentence(<<"T","h","e"," ","e","x","p","a","n","s","i","o","n"," ","i","s"," ",
                "e","x","p","e","c","t","e","d"," ","t","o"," ","c","r","e","a","t","e",
                " ">>, JobsMatch(h, l))
    IN  IF content.len = 0 \/ content.could_not_fetch
        THEN <<"U","n","a","b","l","e"," ","t","o"," ","f","e","t","c","h"," ","f","u","l","l"," ",
                "a","r","t","i","c","l","e"," ","c","o","n","t","e","n","t","."," ","B","a","s","e",
                "d"," ","o","n"," ","t","h","e"," ","h","e","a","d","l","i","n","e",":"," ">> \o h
        ELSE Strip(who \o action \o facility \o where \o investment \o created
                   \o <<"A","d","d","i","t","i","o","n","a","l"," ","f","a","c","i","l","i","t","y",
                           " ","d","e","t","a","i","l","s"," ","r","e","q","u","i","r","e"," ","a",
                           "c","c","e","s","s"," ","t","o"," ","t","h","e"," ","f","u","l","l"," ",
                           "a","r","t","i","c","l","e"," ","c","o","n","t","e","n","t",".">>)

with_lower(h, company, location, content) ==
    detailed_summary(h, LowerCase(h), company, location, content)

create_detailed_summary(headline, company, location, content) ==
    with_lower(fix_text_spacing(headline), company, location, content)

(***************************************************************************)
(* JSON values: what request.json and json.loads give.  A field of an      *)
(* alert holds one; the parser fills in empty strings.                     *)
(***************************************************************************)
Str(s) == [t |-> "str", s |-> s, n |-> 0]

Num(k) == [t |-> "num", s |-> <<>>, n |-> k]

Null == [t |-> "null", s |-> <<>>, n |-> 0]

\* a key the object does not have
Absent == [t |-> "absent", s |-> <<>>, n |-> 0]

\* bool(v)
Truthy(v) ==
    CASE v.t = "str" -> v.s # <<>>
      [] v.t = "num" -> v.n # 0
      [] OTHER -> FALSE

(***************************************************************************)
(* The parsed email body: BeautifulSoup's tree as the sequence of its      *)
(* nodes in document order.  A node has its tag ("#text" for a string),    *)
(* its depth, its href, color and style attributes (None when absent) and, *)
(* for a string, its text.                                                 *)
(***************************************************************************)
Element(tag, depth) ==
    [tag |-> tag, depth |-> depth, href |-> None, color |-> None,
     style |-> None, text |-> <<>>]

TextNode(depth, text) ==
    [tag |-> "#text", depth |-> depth, href |-> None, color |-> None,
     style |-> None, text |-> text]

RECURSIVE SubtreeEndFrom(_, _, _)
SubtreeEndFrom(doc, i, j) ==
    IF j < Len(doc) /\ doc[j + 1].depth > doc[i].depth
    THEN SubtreeEndFrom(doc, i, j + 1)
    ELSE j

\* the last node inside node i; node 0 is the document itself
SubtreeEnd(doc, i) == IF i = 0 THEN Len(doc) ELSE SubtreeEndFrom(doc, i, i)

\* the nodes inside node i, in document order
Descendants(doc, i) ==
    [k \in 1..(SubtreeEnd(doc, i) - i) |-> i + k]

\* node.find_all(tags): the descendants with one of the tags, in document order
find_all(doc, i, tags) ==
    SelectSeq(Descendants(doc, i), LAMBDA j : doc[j].tag \in tags)

\* node.find_all('a', href=True)
find_all_links(doc, i) ==
    SelectSeq(Descendants(doc, i),
              LAMBDA j : doc[j].tag = "a" /\ doc[j].href # None)

\* node.stripped_strings
stripped_strings(doc, i) ==
    LET strings == SelectSeq(Descendants(doc, i),
                             LAMBDA j : /\ doc[j].tag = "#text"
                                        /\ Strip(doc[j].text) # <<>>)
    IN  [k \in 1..Len(strings) |-> Strip(doc[strings[k]].text)]

\* node.get_text(strip=True)
get_text_strip(doc, i) == Concat(stripped_strings(doc, i))

GoogleAlerts == <<"g","o","o","g","l","e",".","c","o","m","/","a","l","e","r","t","s">>

MailTo == <<"m","a","i","l","t","o",":">>

SupportGoogle == <<"s","u","p","p","o","r","t",".","g","o","o","g","l","e">>

Green == <<"0","0","6","6","2","1">>

HashGreen == <<"#","0","0","6","6","2","1">>

\* the hrefs the table-row strategy skips
SkipRow(href) ==
    \/ Contains(href, GoogleAlerts)
    \/ Contains(href, MailTo)
    \/ Contains(href, <<"#">>)
    \/ Contains(href, SupportGoogle)

\* the hrefs the direct link search skips
SkipLink(href) ==
    \/ Contains(href, GoogleAlerts)
    \/ Contains(href, MailTo)
    \/ Contains(href, <<"#">>)

\* the font or span of the row that holds the source, 0 when there is none
SourceElement(doc, row) ==
    LET elems == SelectSeq(find_all(doc, row, {"font", "span"}),
                           LAMBDA j : \/ doc[j].color = HashGreen
                                      \/ /\ doc[j].style # None
                                         /\ doc[j].style # <<>>
                                         /\ Contains(doc[j].style, Green))
    IN  IF elems = <<>> THEN 0 ELSE Head(elems)

\* the alert built from a link; source is the source found for it
NewAlert(doc, link, source) ==
    [headline |-> Strip(fix_text_spacing(JoinSpace(stripped_strings(doc, link)))),
     url |-> extract_google_url(doc[link].href),
     source |-> source,
     company |-> Str(<<>>),
     address |-> Str(<<>>),
     lead_summary |-> Str(<<>>),
     estimated_jobs |-> Str(<<>>),
     date |-> Absent]

MinHeadline == 10

\* the headline is meaningful, with 10 characters admitted
MeaningfulAtLeast(alert) == alert.headline # <<>> /\ Len(alert.headline) >= MinHeadline

\* the headline is meaningful
Meaningful(alert) == alert.headline # <<>> /\ Len(alert.headline) > MinHeadline

\* the rows the table loop visits, in the order it visits them
RowVisits(doc) ==
    LET tables == find_all(doc, 0, {"table"})
    IN  Concat([k \in 1..Len(tables) |-> find_all(doc, tables[k], {"tr"})])

\* the alerts one visit of a row appends: none or one
RowAlerts(doc, row) ==
    LET links == find_all_links(doc, row)
    IN  IF links = <<>> THEN <<>>
        ELSE IF SkipRow(doc[Head(links)].href) THEN <<>>
        ELSE IF extract_google_url(doc[Head(links)].href) = None THEN <<>>
        ELSE LET src == SourceElement(doc, row)
                 alert == NewAlert(doc, Head(links),
                                   IF src = 0 THEN <<>> ELSE get_text_strip(doc, src))
             IN  IF Meaningful(alert) THEN <<alert>> ELSE <<>>

\* the alerts the direct link search appends for one link
LinkAlerts(doc, link) ==
    IF SkipLink(doc[link].href) THEN <<>>
    ELSE IF extract_google_url(doc[link].href) = None THEN <<>>
    ELSE LET alert == NewAlert(doc, link, <<>>)
         IN  IF Meaningful(alert) THEN <<alert>> ELSE <<>>

TableAlerts(doc) ==
    LET rows == RowVisits(doc)
    IN  Concat([k \in 1..Len(rows) |-> RowAlerts(doc, rows[k])])

DirectAlerts(doc) ==
    LET links == find_all_links(doc, 0)
    IN  Concat([k \in 1..Len(links) |-> LinkAlerts(doc, links[k])])

MaxAlerts == 10

\* html_content is the parsed body, or NotHtml for a value BeautifulSoup
\* rejects: the exception is caught and nothing was appended
NotHtml == <<Element("#nothtml", 0)>>

parse_google_alert_email(html_content) ==
    IF html_content = NotHtml THEN <<>>
    ELSE LET found == TableAlerts(html_content)
         IN  Take(IF found = <<>> THEN DirectAlerts(html_content) ELSE found,
                  MaxAlerts)

(***************************************************************************)
(* State.  fn, arg and ret hold one call of a function of the source on    *)
(* its own: the function applied ("" before the call), its argument and    *)
(* its result.  The other variables are one run of process_google_alert:   *)
(* pc is where the handler stands, SMARTSUITE_API_KEY and anthropic_client *)
(* tell whether the two are set, dateutil whether the package can be       *)
(* imported, request is the POST received, alerts,                         *)
(* article_data and results are the handler's locals, alert_no is the      *)
(* number of the alert the loop is at (the source's i + 1), response is    *)
(* what the handler returns and calls lists the outbound calls made so     *)
(* far: the fetches, the language-model calls and the POSTs with their     *)
(* payloads.                                                               *)
(***************************************************************************)
VARIABLES fn, arg, ret, pc, SMARTSUITE_API_KEY, anthropic_client, dateutil, request, alerts,
          alert_no, article_data, results, response, calls

call == <<fn, arg, ret>>

handler == <<pc, SMARTSUITE_API_KEY, anthropic_client, dateutil, request, alerts, alert_no,
             article_data, results, response, calls>>

vars == <<fn, arg, ret, pc, SMARTSUITE_API_KEY, anthropic_client, dateutil, request, alerts,
          alert_no, article_data, results, response, calls>>

NoRequest == [json |-> "none", body_html |-> Absent, body_plain |-> Absent, date |-> Absent]

NoArticle == [content |-> Content(0, FALSE), success |-> FALSE]

NoResponse ==
    [code |-> 0, status |-> "", message |-> "", processed |-> 0, sent_to_smartsuite |-> 0,
     results |-> <<>>]

\* no request is being handled
NoHandler ==
    /\ pc = "off"
    /\ SMARTSUITE_API_KEY = FALSE
    /\ anthropic_client = FALSE
    /\ dateutil = FALSE
    /\ request = NoRequest
    /\ alerts = <<>>
    /\ alert_no = 0
    /\ article_data = NoArticle
    /\ results = <<>>
    /\ response = NoResponse
    /\ calls = <<>>

\* all sequences of at most n elements of S
SeqsUpTo(S, n) == UNION {[1..k -> S] : k \in 0..n}

(***************************************************************************)
(* fix_text_spacing applied to the texts made of at most MaxTextTokens     *)
(* pieces: single characters of every class and the stems the source names.*)
(***************************************************************************)
MaxTextTokens == 4

TextTokens ==
    {<<"a">>, <<"b">>, <<"A">>, <<"B">>, <<" ">>, <<"\\xa0">>, <<"1">>,
     StemCompany, StemExpands, StemAnnounces, StemMillion, StemManufacturing}

Texts == {Concat(t) : t \in SeqsUpTo(TextTokens, MaxTextTokens)}

InitText ==
    /\ fn = ""
    /\ arg \in Texts
    /\ ret = <<>>
    /\ NoHandler

Call_fix_text_spacing ==
    /\ fn = ""
    /\ fn' = "fix_text_spacing"
    /\ ret' = fix_text_spacing(arg)
    /\ UNCHANGED <<arg, handler>>

NextText == Call_fix_text_spacing

SpecText == InitText /\ [][NextText]_vars

(***************************************************************************)
(* extract_google_url applied to redirect links that wrap a target URL     *)
(* and to hrefs made of at most MaxHrefTokens pieces.                      *)
(***************************************************************************)
RECURSIVE quote(_)
\* urllib.parse.quote(s, safe=''): how a redirect link carries its target
quote(s) ==
    IF s = <<>> THEN <<>>
    ELSE IF Head(s) \in Letter \cup Digit \cup {"_", ".", "-", "~"}
    THEN <<Head(s)>> \o quote(Tail(s))
    ELSE LET n == Ord(Head(s))
             Escape(b) == <<"%", HexDigits[(b \div 16) + 1], HexDigits[(b % 16) + 1]>>
         IN  (IF n < 128 THEN Escape(n)
              ELSE Escape(192 + (n \div 64)) \o Escape(128 + (n % 64)))
             \o quote(Tail(s))

RedirectBase == <<"h","t","t","p","s",":","/","/","w","w","w",".","g","o","o","g","l","e",".","c","o","m","/","u","r","l","?">>

Targets == {<<"h","t","t","p","s",":","/","/","e","x","a","m","p","l","e",".","c","o","m","/","a","?","b","=","1">>,
     <<"h","t","t","p",":","/","/","e",".","c","o","m","/","x","&","y","=","2">>,
     <<"h","t","t","p","s",":","/","/","e",".","c","o","m","/","5","0","%","o","f","f">>,
     <<"h","t","t","p",":","/","/","e",".","c","o","m","/","c","a","f","\\xe9">>}

ParamsBefore == {<<>>, <<"r","c","t","=","j","&","s","a","=","t","&">>, <<"s","u","r","l","=","x","&">>}

ParamsAfter == {<<>>, <<"&","c","t","=","g","a","&","u","s","g","=","A","B">>}

\* a redirect link wrapping target t
RedirectHref(before, t, after) ==
    RedirectBase \o before \o UrlEq \o quote(t) \o after

MaxHrefTokens == 3

HrefTokens ==
    {<<"h","t","t","p">>,
     <<"h","t","t","p","s",":","/","/">>,
     <<":","/","/">>,
     <<"e",".","c","o","m">>,
     <<"/","a">>,
     <<"#">>,
     <<"m","a","i","l","t","o",":">>,
     <<"g","o","o","g","l","e",".","c","o","m","/","u","r","l","?">>,
     <<"u","r","l","=">>,
     <<"&">>,
     <<"%","2","F">>,
     <<"x">>,
     <<"f","t","p">>}

\* arg.href is the href; arg.wraps is the target it was built to carry, or None
InitUrl ==
    /\ fn = ""
    /\ arg \in {[href |-> RedirectHref(b, t, a), wraps |-> t] :
                    b \in ParamsBefore, t \in Targets, a \in ParamsAfter}
               \cup {[href |-> Concat(h), wraps |-> None] :
                       h \in SeqsUpTo(HrefTokens, MaxHrefTokens)}
    /\ ret = <<>>
    /\ NoHandler

Call_extract_google_url ==
    /\ fn = ""
    /\ fn' = "extract_google_url"
    /\ ret' = extract_google_url(arg.href)
    /\ UNCHANGED <<arg, handler>>

NextUrl == Call_extract_google_url

SpecUrl == InitUrl /\ [][NextUrl]_vars

(***************************************************************************)
(* parse_google_alert_email applied to email bodies of at most MaxItems    *)
(* items: table rows with one alert link each, and at most one item of     *)
(* another shape among them.  Item k links to its own URL, so a record is  *)
(* known by its url.                                                       *)
(***************************************************************************)
\* the lengths send_to_smartsuite cuts the title, the summary and the source to
MaxTitle == 80

\* the clock is not modelled: every reading of it gives these
Timestamp == <<"2","0","2","5","0","1","0","1","_","1","2","0","0","0","0">>

\* datetime.now().isoformat()
IsoDate == <<"2","0","2","5","-","0","1","-","0","1","T","1","2",":","0","0",":","0","0">>

DateIso == <<"2","0","2","4","-","0","5","-","0","1","T","1","0",":","0","0",":","0","0">>

DateShort == <<"2","0","2","4","-","0","5","-","0","1"," ","1","0",":","0","0">>

DateWord == <<"s","o","o","n">>

\* dateutil's parser.parse(text).isoformat() for the date texts of the
\* model, None where parse raises
parser_parse ==
    [text \in {IsoDate, DateIso, DateShort, DateWord} |->
        CASE text = DateShort -> DateIso
          [] text = DateWord -> None
          [] OTHER -> text]

MaxSummary == 1000

MaxSource == 100

Digits(k) ==
    IF k < 10 THEN <<Chr(48 + k)>> ELSE <<Chr(48 + (k \div 10)), Chr(48 + (k % 10))>>

ArticleUrl(k) == <<"h","t","t","p",":","/","/","e",".","c","o","m","/">> \o Digits(k)

LongText(k) == <<"A","c","m","e","E","x","p","a","n","d","s","S","i","t","e">> \o Digits(k)

Link(depth, href, text) ==
    <<[Element("a", depth) EXCEPT !.href = href], TextNode(depth + 1, text)>>

SourceFont(depth, text) ==
    <<[Element("font", depth) EXCEPT !.color = HashGreen], TextNode(depth + 1, text)>>

SourceSpan(depth, text) ==
    <<[Element("span", depth) EXCEPT !.style = <<"c","o","l","o","r",":","#","0","0","6","6","2","1">>], TextNode(depth + 1, text)>>

Row(depth, cell) == <<Element("tr", depth), Element("td", depth + 1)>> \o cell

ItemKinds ==
    {"row", "plain", "short", "ten", "eleven", "glued9", "glued10", "padded",
     "alerts", "support", "mailto", "relative", "nohref", "two", "nested", "bare"}

\* item k of the given kind, at the given depth
Item(kind, k, d) ==
    CASE kind = "row" ->
            Row(d, Link(d + 2, RedirectHref(<<"r","c","t","=","j","&","s","a","=","t","&">>, ArticleUrl(k), <<"&","c","t","=","g","a">>), LongText(k))
                   \o SourceFont(d + 2, <<"D","a","i","l","y"," ","N","e","w","s">>))
      [] kind = "plain" ->
            Row(d, Link(d + 2, ArticleUrl(k), LongText(k)) \o SourceSpan(d + 2, <<"D","a","i","l","y"," ","N","e","w","s">>))
      [] kind = "short" -> Row(d, Link(d + 2, ArticleUrl(k), <<"R","e","a","d","M","o","r","e">>))
      [] kind = "ten" -> Row(d, Link(d + 2, ArticleUrl(k), <<"a","b","c","d","e","f","g","h","i","j">>))
      [] kind = "eleven" -> Row(d, Link(d + 2, ArticleUrl(k), <<"a","b","c","d","e","f","g","h","i","j","k">>))
      [] kind = "glued9" -> Row(d, Link(d + 2, ArticleUrl(k), <<"N","i","n","e","C","h","a","r","s">>))
      [] kind = "glued10" -> Row(d, Link(d + 2, ArticleUrl(k), <<"T","e","n","L","e","t","t","e","r","s">>))
      [] kind = "padded" -> Row(d, Link(d + 2, ArticleUrl(k), <<"\\xa0", "\n">> \o <<"a","b","c","d","e","f","g","h","i","j">> \o <<" ", "\\xa0">>))
      [] kind = "alerts" -> Row(d, Link(d + 2, <<"h","t","t","p","s",":","/","/","w","w","w",".","g","o","o","g","l","e",".","c","o","m","/","a","l","e","r","t","s","?","s","=">> \o Digits(k), LongText(k)))
      [] kind = "support" -> Row(d, Link(d + 2, <<"h","t","t","p","s",":","/","/","s","u","p","p","o","r","t",".","g","o","o","g","l","e",".","c","o","m","/","a","/">> \o Digits(k), LongText(k)))
      [] kind = "mailto" -> Row(d, Link(d + 2, MailTo \o <<"a", "@", "b">>, LongText(k)))
      [] kind = "relative" -> Row(d, Link(d + 2, <<"/", "n", "e", "w", "s", "/">> \o Digits(k), LongText(k)))
      [] kind = "nohref" -> Row(d, Link(d + 2, None, LongText(k)))
      [] kind = "two" ->
            Row(d, Link(d + 2, ArticleUrl(k), LongText(k))
                   \o Link(d + 2, ArticleUrl(k) \o <<"b">>, LongText(k) \o <<"b">>))
      [] kind = "scenario" ->
            Row(d, Link(d + 2, RedirectHref(<<>>, ArticleUrl(k), <<>>), <<"A","c","m","e","C","o",
                    "E","x","p","a","n","d","s","N","e","w","F","a","c","i","l","i","t","y">>))
      [] kind = "jobs" ->
            Row(d, Link(d + 2, ArticleUrl(k), <<"A","c","m","e"," ","I","n","c"," ","a","d","d","s",
                    " ","2","5","0"," ","j","o","b","s"," ","i","n"," ","O","h","i","o">>)
                   \o SourceFont(d + 2, <<"D","a","i","l","y"," ","N","e","w","s">>))
      [] kind = "long" ->
            Row(d, Link(d + 2, ArticleUrl(k), LongText(k))
                   \o SourceFont(d + 2, [j \in 1..(MaxSource + 1) |-> "s"]))
      [] kind = "nested" ->
            Row(d, <<Element("table", d + 2)>>
                   \o Row(d + 3, Link(d + 5, ArticleUrl(k), LongText(k))))
      [] OTHER -> <<Element("div", d)>> \o Link(d + 1, ArticleUrl(k), LongText(k))

\* the body with n items, item pos (if any) of the given kind and the others
\* plain alert rows; inside one table, or with no table around them
EmailBody(n, pos, kind, inTable) ==
    IF inTable
    THEN <<Element("table", 1)>>
         \o Concat([k \in 1..n |-> Item(IF k = pos THEN kind ELSE "row", k, 2)])
    ELSE Concat([k \in 1..n |-> Item(IF k = pos THEN kind ELSE "row", k, 1)])

MaxItems == 12

EmailBodies ==
    {EmailBody(n, 0, "row", inTable) : n \in 0..MaxItems, inTable \in BOOLEAN}
    \cup UNION {{EmailBody(n, pos, kind, inTable) :
                     pos \in 1..n, kind \in ItemKinds \ {"row"}, inTable \in BOOLEAN} :
                 n \in 1..MaxItems}

InitParse ==
    /\ fn = ""
    /\ arg \in EmailBodies
    /\ ret = <<>>
    /\ NoHandler

Call_parse_google_alert_email ==
    /\ fn = ""
    /\ fn' = "parse_google_alert_email"
    /\ ret' = parse_google_alert_email(arg)
    /\ UNCHANGED <<arg, handler>>

NextParse == Call_parse_google_alert_email

SpecParse == InitParse /\ [][NextParse]_vars

(***************************************************************************)
(* process_google_alert.  One POST to /webhook is handled from its receipt *)
(* to its response; the handler keeps nothing between requests.  A request *)
(* carries JSON that request.json rejects ("invalid"), null, an array, or  *)
(* an object whose body_html, body_plain and date are the given values.  A  *)
(* body that is a string is given by its parsed document, the empty string *)
(* by the empty document.                                                  *)
(***************************************************************************)
Request(json, body_html, body_plain, date) ==
    [json |-> json, body_html |-> body_html, body_plain |-> body_plain, date |-> date]

\* the emails of the handler's requests: a table without links, the glued
\* headline of a redirect link, an alert and a short link, two alerts, two
\* links outside of any table and one alert with a long source
MailBodies ==
    {EmailBody(0, 0, "row", TRUE), EmailBody(1, 1, "scenario", TRUE),
     EmailBody(2, 2, "short", TRUE), EmailBody(2, 1, "jobs", TRUE),
     EmailBody(2, 1, "ten", FALSE), EmailBody(1, 1, "long", TRUE)}

\* the dates of the handler's requests: null, the empty string, a number,
\* two texts that dateutil parses and one that it rejects
Dates == {Null, Str(<<>>), Num(5), Str(DateIso), Str(DateShort), Str(DateWord)}

Requests ==
    {Request("invalid", Absent, Absent, Absent), Request("null", Absent, Absent, Absent),
     Request("array", Absent, Absent, Absent)}
    \cup {Request("object", h, p, Absent) :
            h \in {Absent, Null, Str(<<>>), Num(5)} \cup {Str(b) : b \in MailBodies},
            p \in {Absent, Str(<<>>), Str(EmailBody(1, 1, "scenario", TRUE))}}
    \cup {Request("object", Str(EmailBody(1, 1, "scenario", TRUE)), Absent, d) : d \in Dates}

\* the requests for which the handler is run with dateutil: one record, with
\* each of the dates and with no date
Dated ==
    {Request("object", Str(EmailBody(1, 1, "scenario", TRUE)), Absent, d) :
        d \in Dates \cup {Absent}}

(***************************************************************************)
(* fetch_article_with_jina.  got is what requests.get did: it raised, or   *)
(* it answered with a status and a text; len is the length of the text     *)
(* after the markdown clean-up and at is the position, counted from 1, at  *)
(* which the words "Could not fetch" first stand in it, 0 if it does not   *)
(* hold them.                                                              *)
(***************************************************************************)
Raised == [kind |-> "raise", status |-> 0, len |-> 0, at |-> 0]

Answered(status, len, at) ==
    [kind |-> "response", status |-> status, len |-> len, at |-> at]

CouldNotFetch == <<"C","o","u","l","d"," ","n","o","t"," ","f","e","t","c","h">>

MinContent == 100

MaxContent == 8000

\* the three messages that stand in for the content: each begins
\* "Could not fetch article content"
Blocked == Content(Len(<<"C","o","u","l","d"," ","n","o","t"," ","f","e","t","c","h"," ","a","r",
        "t","i","c","l","e"," ","c","o","n","t","e","n","t"," ","-"," ","w","e","b","s","i","t","e",
        " ","m","a","y"," ","b","e"," ","b","l","o","c","k","i","n","g"," ","a","c","c","e","s","s",
        ".">>), TRUE)

ReaderError == Content(Len(<<"C","o","u","l","d"," ","n","o","t"," ","f","e","t","c","h"," ","a",
        "r","t","i","c","l","e"," ","c","o","n","t","e","n","t"," ","-"," ","J","i","n","a"," ","R",
        "e","a","d","e","r"," ","r","e","t","u","r","n","e","d"," ","e","r","r","o","r"," ","4","0",
        "3">>), TRUE)

FetchError == Content(Len(<<"C","o","u","l","d"," ","n","o","t"," ","f","e","t","c","h"," ","a","r",
        "t","i","c","l","e"," ","c","o","n","t","e","n","t"," ","-"," ","E","r","r","o","r",":"," ",
        "t","i","m","e","d"," ","o","u","t">>), TRUE)

fetch_article_with_jina(got) ==
    IF got.kind = "raise" THEN [content |-> FetchError, success |-> FALSE]
    ELSE IF got.status # 200 THEN [content |-> ReaderError, success |-> FALSE]
    ELSE IF got.len > MinContent
    THEN LET kept == IF got.len > MaxContent THEN MaxContent ELSE got.len
         IN  [content |-> Content(kept, got.at > 0 /\ got.at + Len(CouldNotFetch) - 1 <= kept),
              success |-> TRUE]
    ELSE [content |-> Blocked, success |-> FALSE]

(***************************************************************************)
(* The pattern rules are functions of the headline, and the summary reads  *)
(* of the content only whether it is empty or holds "Could not fetch".     *)
(* They are worked out once for the headlines of the handler's emails and  *)
(* looked up from then on.                                                 *)
(***************************************************************************)
HeadlinesOf(found) == {found[k].headline : k \in 1..Len(found)}

Headlines == UNION {HeadlinesOf(parse_google_alert_email(b)) : b \in MailBodies}

\* a content that was fetched
Fetched == Content(MinContent + 1, FALSE)

Unavailable(content) == content.len = 0 \/ content.could_not_fetch

\* the pattern rules for one headline; summaries holds what
\* create_detailed_summary makes from the headline alone and from the headline,
\* the company and the address, for a content that was fetched and for one that
\* was not
Ruled(headline, company, address) ==
    [headline |-> headline, company |-> company, address |-> address,
     jobs |-> extract_job_numbers(headline),
     summaries |->
         {[company |-> given[1], address |-> given[2], fetched |-> fetched,
           summary |-> create_detailed_summary(headline, given[1], given[2],
                                               IF fetched THEN Fetched ELSE Blocked)] :
              given \in {<<<<>>, <<>>>>, <<company, address>>}, fetched \in BOOLEAN}]

RulesOf(headline) ==
    Ruled(headline, extract_company_name(headline),
          extract_location_from_headline(headline))

Tabulated == {RulesOf(h) : h \in Headlines}

Rules(headline) == CHOOSE r \in Tabulated : r.headline = headline

\* create_detailed_summary(r.headline, company, address, content)
Summary(r, company, address, content) ==
    (CHOOSE x \in r.summaries :
        /\ x.company = company
        /\ x.address = address
        /\ x.fetched = ~Unavailable(content)).summary

(***************************************************************************)
(* extract_all_info_with_ai.  reply is what the language model did: the    *)
(* call raised, or it answered text that json.loads rejects ("garbage"),   *)
(* a JSON value that is no object ("array"), or an object with the given   *)
(* values under company, address, jobs and summary (Absent for a key the   *)
(* object does not have).  A result carries raised, which tells whether    *)
(* the function ended by an exception.                                     *)
(***************************************************************************)
Reply(kind, company, address, jobs, summary) ==
    [kind |-> kind, company |-> company, address |-> address, jobs |-> jobs,
     summary |-> summary]

Fields(company, address, jobs, summary) ==
    [raised |-> FALSE, company |-> company, address |-> address, jobs |-> jobs,
     summary |-> summary]

\* an exception leaves the function
Raise == [raised |-> TRUE, company |-> Null, address |-> Null, jobs |-> Null,
          summary |-> Null]

\* the fields the pattern rules give: with the summary made from the headline
\* alone, or (own) from the headline, the company and the address
RuleFields(r, own, content) ==
    Fields(Str(r.company), Str(r.address), Str(r.jobs),
           Str(Summary(r, IF own THEN r.company ELSE <<>>,
                       IF own THEN r.address ELSE <<>>, content)))

\* the dictionary returned when the language model is not used
pattern_fields(headline, content) == RuleFields(Rules(headline), FALSE, content)

\* the fields the handler itself sets from the pattern rules
handler_fields(headline, content) == RuleFields(Rules(headline), TRUE, content)

MinAIContent == 200

\* content and len(content) > 200 and "Could not fetch" not in content
has_content(content) == content.len > MinAIContent /\ ~content.could_not_fetch

NotFetchedNote == <<" ","[","N","o","t","e",":"," ","F","u","l","l"," ","a","r","t","i","c","l","e",
        " ","c","o","n","t","e","n","t"," ","c","o","u","l","d"," ","n","o","t"," ","b","e"," ","f",
        "e","t","c","h","e","d","]">>

\* dict.get(key, default)
Get(value, default) == IF value = Absent THEN default ELSE value

\* the body of the try statement: the call, json.loads and the use of the
\* decoded reply
ai_fields(content, headline, reply) ==
    IF reply.kind \in {"raise", "garbage", "array"} THEN Raise
    ELSE LET summary == Get(reply.summary, Str(<<>>))
         IN  IF has_content(content)
             THEN Fields(Get(reply.company, Str(<<>>)), Get(reply.address, Str(<<>>)),
                         Get(reply.jobs, Str(<<>>)), Get(reply.summary, Str(headline)))
             ELSE IF summary.t # "str" THEN Raise
             ELSE Fields(Get(reply.company, Str(<<>>)), Get(reply.address, Str(<<>>)),
                         Get(reply.jobs, Str(<<>>)), Str(summary.s \o NotFetchedNote))

\* the try statement without its except clause
TryOnly(client, tried, fallback) ==
    IF ~client THEN fallback ELSE tried

\* if not anthropic_client: ... try: ... except Exception: ...
TryOrFallBack(client, tried, fallback) ==
    IF ~client THEN fallback
    ELSE IF tried.raised THEN fallback
    ELSE tried

extract_all_info_with_ai(client, content, headline, reply) ==
    TryOrFallBack(client, ai_fields(content, headline, reply),
                  pattern_fields(headline, content))

(***************************************************************************)
(* send_to_smartsuite.  post is what requests.post did: it raised or it    *)
(* answered with a status.  The result tells whether a POST was made and   *)
(* with which payload; a payload is a function from its keys to values.    *)
(***************************************************************************)
Message(text, status) == [text |-> text, status |-> status]

SubmitResult(raised, success, message, posted, payload) ==
    [raised |-> raised, success |-> success, message |-> message,
     posted |-> posted, payload |-> payload]

\* the date of the payload: lines 604 to 612.  importable tells whether
\* dateutil can be imported: without it the import raises and the bare except
\* takes the clock, as it does when parse raises (a text that is no date, a
\* value that is no string)
formatted_date(alert_data, importable) ==
    IF ~Truthy(alert_data.date) THEN IsoDate
    ELSE IF ~importable \/ alert_data.date.t # "str" THEN IsoDate
    ELSE IF parser_parse[alert_data.date.s] = None THEN IsoDate
    ELSE parser_parse[alert_data.date.s]

PayloadKeys ==
    {"title", "sc373e6626", "s46434c9b6", "s492934214", "sa8ca8dbcb", "s8e6e9fe79",
     "s8d5616e3e", "s6e74e1ce5"}

\* value[:n] raises TypeError for a value that is no string
Sliceable(value) == value.t = "str"

\* the payload before it is cleaned; a url of None is null
full_payload(alert_data, importable) ==
    LET base == IF Truthy(alert_data.company) THEN alert_data.company.s
                ELSE alert_data.headline
    IN  [k \in PayloadKeys |->
            CASE k = "title" -> Str(Take(base, MaxTitle) \o <<" ","-"," ">> \o Timestamp)
              [] k = "sc373e6626" -> Get(alert_data.company, Str(<<>>))
              [] k = "s46434c9b6" -> Get(alert_data.address, Str(<<>>))
              [] k = "s492934214" ->
                    Str(Take(Get(alert_data.lead_summary, Str(<<>>)).s, MaxSummary))
              [] k = "sa8ca8dbcb" -> Get(alert_data.estimated_jobs, Str(<<>>))
              [] k = "s8e6e9fe79" -> IF alert_data.url = None THEN Null ELSE Str(alert_data.url)
              [] k = "s8d5616e3e" -> Str(formatted_date(alert_data, importable))
              [] OTHER -> Str(Take(alert_data.source, MaxSource))]

\* the payload without its empty strings only
clean_payload_strings(payload) ==
    [k \in {j \in DOMAIN payload : payload[j] # Str(<<>>)} |-> payload[k]]

\* {k: v for k, v in payload.items() if v and v != ''}
clean_payload(payload) ==
    [k \in {j \in DOMAIN payload : Truthy(payload[j])} |-> payload[k]]

NoPayload == [k \in {} |-> Null]

\* building the title or the payload raises TypeError
payload_raises(alert_data) ==
    \/ Truthy(alert_data.company) /\ ~Sliceable(alert_data.company)
    \/ ~Sliceable(Get(alert_data.lead_summary, Str(<<>>)))

\* send_to_smartsuite without its outer try statement
send_to_smartsuite_unguarded(api_key, alert_data, post, importable) ==
    IF ~api_key
    THEN SubmitResult(FALSE, FALSE, Message("Missing SmartSuite API key", 0), FALSE, NoPayload)
    ELSE IF payload_raises(alert_data) \/ post.kind = "raise"
    THEN SubmitResult(TRUE, FALSE, Message("", 0), ~payload_raises(alert_data), NoPayload)
    ELSE IF post.status \in {200, 201}
    THEN SubmitResult(FALSE, TRUE, Message("Successfully sent to SmartSuite", 0), TRUE,
                      clean_payload(full_payload(alert_data, importable)))
    ELSE SubmitResult(FALSE, FALSE, Message("SmartSuite error", post.status), TRUE,
                      clean_payload(full_payload(alert_data, importable)))

send_to_smartsuite(api_key, alert_data, post, importable) ==
    IF ~api_key
    THEN SubmitResult(FALSE, FALSE, Message("Missing SmartSuite API key", 0), FALSE, NoPayload)
    ELSE IF payload_raises(alert_data)
    THEN SubmitResult(FALSE, FALSE, Message("Exception: TypeError", 0), FALSE, NoPayload)
    ELSE IF post.kind = "raise"
    THEN SubmitResult(FALSE, FALSE, Message("Exception: ConnectionError", 0), TRUE,
                      clean_payload(full_payload(alert_data, importable)))
    ELSE IF post.status \in {200, 201}
    THEN SubmitResult(FALSE, TRUE, Message("Successfully sent to SmartSuite", 0), TRUE,
                      clean_payload(full_payload(alert_data, importable)))
    ELSE SubmitResult(FALSE, FALSE, Message("SmartSuite error", post.status), TRUE,
                      clean_payload(full_payload(alert_data, importable)))

\* what requests.get may do
Fetches ==
    {Raised, Answered(403, 0, 0), Answered(200, MinContent, 0),
     Answered(200, MinAIContent, 0), Answered(200, MinAIContent + 1, 0),
     Answered(200, MinAIContent + 1, 1), Answered(200, MaxContent + 1, 0),
     Answered(200, MaxContent + Len(CouldNotFetch), MaxContent - 4)}

LongCompany == [j \in 1..(MaxTitle + 1) |-> "c"]

LongSummary == [j \in 1..(MaxSummary + 1) |-> "s"]

\* what the language model may do
Replies ==
    {Reply("raise", Absent, Absent, Absent, Absent),
     Reply("garbage", Absent, Absent, Absent, Absent),
     Reply("array", Absent, Absent, Absent, Absent),
     Reply("object", Str(<<"A","c","m","e">>), Str(<<"A","u","s","t","i","n",","," ","T","e","x",
             "a","s">>), Str(<<"2","5","0">>), Str(<<"A","c","m","e"," ","b","u","i","l","d","s",
             ".">>)),
     Reply("object", Str(<<>>), Str(<<>>), Str(<<>>), Str(<<>>)),
     Reply("object", Absent, Absent, Absent, Absent),
     Reply("object", Null, Null, Null, Null),
     Reply("object", Num(250), Str(<<>>), Str(<<"2","5","0">>), Str(<<"A","c","m","e"," ","b","u",
             "i","l","d","s",".">>)),
     Reply("object", Str(<<>>), Str(<<"A","u","s","t","i","n",","," ","T","e","x","a",
             "s">>), Num(250), Str(<<"A","c","m","e"," ","b","u","i","l","d","s",".">>)),
     Reply("object", Str(<<"A","c","m","e">>), Null, Num(0), Str(<<"A","c","m","e"," ","b","u","i",
             "l","d","s",".">>)),
     Reply("object", Str(<<"A","c","m","e">>), Str(<<>>), Str(<<>>), Num(5)),
     Reply("object", Str(LongCompany), Str(<<>>), Str(<<>>), Str(LongSummary))}

\* what requests.post may do
Posts == {Raised, Answered(200, 0, 0), Answered(201, 0, 0), Answered(400, 0, 0)}

(***************************************************************************)
(* extract_all_info_with_ai applied on its own: with and without client,   *)
(* to the empty content and the contents fetch_article_with_jina returns,  *)
(* the headlines of the handler's emails and the replies of the language   *)
(* model.                                                                  *)
(***************************************************************************)
Contents == {Content(0, FALSE)} \cup {fetch_article_with_jina(got).content : got \in Fetches}

InitExtract ==
    /\ fn = ""
    /\ arg \in [client : BOOLEAN, content : Contents, headline : Headlines, reply : Replies]
    /\ ret = <<>>
    /\ NoHandler

Call_extract_all_info_with_ai ==
    /\ fn = ""
    /\ fn' = "extract_all_info_with_ai"
    /\ ret' = extract_all_info_with_ai(arg.client, arg.content, arg.headline, arg.reply)
    /\ UNCHANGED <<arg, handler>>

NextExtract == Call_extract_all_info_with_ai

SpecExtract == InitExtract /\ [][NextExtract]_vars

Call(kind, alert, status, payload) ==
    [kind |-> kind, alert |-> alert, status |-> status, payload |-> payload]

\* jsonify({'status': 'error', 'message': ...}), code
ErrorResponse(code, message) ==
    [code |-> code, status |-> "error", message |-> message, processed |-> 0,
     sent_to_smartsuite |-> 0, results |-> <<>>]

\* the success response with every result counted as sent
SuccessResponseAll(rs) ==
    [code |-> 200, status |-> "success", message |-> "", processed |-> Len(rs),
     sent_to_smartsuite |-> Len(rs), results |-> rs]

\* jsonify({'status': 'success', ...}): Flask answers 200
SuccessResponse(rs) ==
    [code |-> 200, status |-> "success", message |-> "", processed |-> Len(rs),
     sent_to_smartsuite |-> Cardinality({k \in 1..Len(rs) : rs[k].success}),
     results |-> rs]

\* data.get('date', datetime.now().isoformat())
email_date(data) == Get(data.date, Str(IsoDate))

\* data.get('body_html', '') or data.get('body_plain', '')
email_body(data) ==
    IF Truthy(Get(data.body_html, Str(<<>>))) THEN Get(data.body_html, Str(<<>>))
    ELSE Get(data.body_plain, Str(<<>>))

\* BeautifulSoup(html_content, 'html.parser')
BeautifulSoup(html_content) ==
    IF html_content.t = "str" THEN html_content.s ELSE NotHtml

InitHandler ==
    /\ fn = ""
    /\ arg = <<>>
    /\ ret = <<>>
    /\ pc = "idle"
    /\ SMARTSUITE_API_KEY \in BOOLEAN
    /\ anthropic_client \in BOOLEAN
    /\ request \in Requests
    /\ dateutil \in IF request \in Dated THEN BOOLEAN ELSE {FALSE}
    /\ alerts = <<>>
    /\ alert_no = 0
    /\ article_data = NoArticle
    /\ results = <<>>
    /\ response = NoResponse
    /\ calls = <<>>

\* from the receipt of the request to the loop over the alerts
Receive ==
    /\ pc = "idle"
    /\ IF request.json = "invalid"
       THEN /\ response' = ErrorResponse(500, "request.json raised")
            /\ pc' = "done"
            /\ UNCHANGED <<alerts, alert_no>>
       ELSE IF request.json # "object"
       THEN /\ response' = ErrorResponse(500, "data.keys raised")
            /\ pc' = "done"
            /\ UNCHANGED <<alerts, alert_no>>
       ELSE IF ~Truthy(email_body(request))
       THEN /\ response' = ErrorResponse(400, "No email body provided")
            /\ pc' = "done"
            /\ UNCHANGED <<alerts, alert_no>>
       ELSE /\ alerts' = parse_google_alert_email(BeautifulSoup(email_body(request)))
            /\ IF alerts' = <<>>
               THEN /\ response' = SuccessResponse(<<>>)
                    /\ pc' = "done"
                    /\ UNCHANGED alert_no
               ELSE /\ alert_no' = 1
                    /\ pc' = "fetch"
                    /\ UNCHANGED response
    /\ UNCHANGED <<call, SMARTSUITE_API_KEY, anthropic_client, dateutil, request, article_data,
                   results, calls>>

\* the fetch with one more attempt after a failure
FetchArticleRetrying ==
    /\ pc = "fetch"
    /\ \E got \in Fetches :
           /\ article_data' = fetch_article_with_jina(got)
           /\ calls' = IF got.status = 200
                       THEN Append(calls, Call("fetch", alert_no, got.status, NoPayload))
                       ELSE calls \o <<Call("fetch", alert_no, got.status, NoPayload),
                                      Call("fetch", alert_no, got.status, NoPayload)>>
           /\ pc' = "extract"
    /\ UNCHANGED <<call, SMARTSUITE_API_KEY, anthropic_client, dateutil, request, alerts, alert_no, results,
                   response>>


\* if alert['url']: fetch_article_with_jina
FetchArticle ==
    /\ pc = "fetch"
    /\ IF alerts[alert_no].url # <<>>
       THEN \E got \in Fetches :
                /\ article_data' = fetch_article_with_jina(got)
                /\ calls' = Append(calls, Call("fetch", alert_no, got.status, NoPayload))
                /\ pc' = "extract"
                /\ UNCHANGED alerts
       ELSE /\ alerts' = [alerts EXCEPT ![alert_no].lead_summary = Str(<<"N","o"," ","a","r","t","i","c",
               "l","e"," ","U","R","L"," ","p","r","o","v","i","d","e","d">>)]
            /\ pc' = "submit"
            /\ UNCHANGED <<article_data, calls>>
    /\ UNCHANGED <<call, SMARTSUITE_API_KEY, anthropic_client, dateutil, request, alert_no, results, response>>

WithFields(alert, info) ==
    [alert EXCEPT !.company = info.company, !.address = info.address,
                  !.estimated_jobs = info.jobs, !.lead_summary = info.summary]

\* if anthropic_client: extract_all_info_with_ai
ExtractWithAI ==
    /\ pc = "extract"
    /\ anthropic_client
    /\ \E reply \in Replies :
           \E info \in {extract_all_info_with_ai(anthropic_client, article_data.content,
                                                  alerts[alert_no].headline, reply)} :
               /\ calls' = Append(calls, Call("llm", alert_no, 0, NoPayload))
               /\ IF info.raised
                  THEN /\ response' = ErrorResponse(500, "extract_all_info_with_ai raised")
                       /\ pc' = "done"
                       /\ UNCHANGED alerts
                  ELSE /\ alerts' = [alerts EXCEPT ![alert_no] = WithFields(@, info)]
                       /\ pc' = "submit"
                       /\ UNCHANGED response
    /\ UNCHANGED <<call, SMARTSUITE_API_KEY, anthropic_client, dateutil, request, alert_no, article_data,
                   results>>

\* else: the pattern rules
ExtractWithPatterns ==
    /\ pc = "extract"
    /\ ~anthropic_client
    /\ alerts' = [alerts EXCEPT ![alert_no] = WithFields(@, handler_fields(@.headline,
                                                                   article_data.content))]
    /\ pc' = "submit"
    /\ UNCHANGED <<call, SMARTSUITE_API_KEY, anthropic_client, dateutil, request, alert_no, article_data,
                   results, response, calls>>

\* from alert['date'] = email_date to the end of the loop body, and the
\* response after the last alert
Submit ==
    /\ pc = "submit"
    /\ alerts' = [alerts EXCEPT ![alert_no].date = email_date(request)]
    /\ IF ~Sliceable(alerts[alert_no].lead_summary)
       THEN /\ response' = ErrorResponse(500, "lead_summary[:100] raised")
            /\ pc' = "done"
            /\ UNCHANGED <<alert_no, results, calls>>
       ELSE \E post \in Posts :
                LET sent == send_to_smartsuite(SMARTSUITE_API_KEY, alerts'[alert_no], post,
                                               dateutil)
                    result == [headline |-> alerts[alert_no].headline,
                               company |-> alerts[alert_no].company,
                               success |-> sent.success, message |-> sent.message]
                IN  /\ calls' = IF sent.posted
                                THEN Append(calls, Call("post", alert_no, post.status, sent.payload))
                                ELSE calls
                    /\ IF sent.raised
                       THEN /\ response' = ErrorResponse(500, "send_to_smartsuite raised")
                            /\ pc' = "done"
                            /\ UNCHANGED <<alert_no, results>>
                       ELSE /\ results' = Append(results, result)
                            /\ IF alert_no < Len(alerts)
                               THEN /\ alert_no' = alert_no + 1
                                    /\ pc' = "fetch"
                                    /\ UNCHANGED response
                               ELSE /\ response' = SuccessResponse(results')
                                    /\ pc' = "done"
                                    /\ UNCHANGED alert_no
    /\ UNCHANGED <<call, SMARTSUITE_API_KEY, anthropic_client, dateutil, request, article_data>>

Next ==
    \/ Receive
    \/ FetchArticle
    \/ ExtractWithAI
    \/ ExtractWithPatterns
    \/ Submit

Spec == InitHandler /\ [][Next]_vars


(***************************************************************************)
(* extract_location_from_headline applied to headlines that end with a     *)
(* city and a state, after nothing or after a lead, and to headlines that  *)
(* name no state.  arg.city and arg.state are the city and the full name   *)
(* of the state the headline was built with, or None.                      *)
(***************************************************************************)
Leads ==
    {<<>>, <<"P","l","a","n","t"," ","i","n"," ">>, <<"E","x","a","m","p","l","e","C","o"," ","O",
            "p","e","n","s"," ","P","l","a","n","t"," ","i","n"," ">>, <<"A","p","e","x"," ","a",
            "d","d","s"," ","s","i","t","e"," ","n","e","a","r"," ">>}

Cities == {<<"D","a","y","t","o","n">>, <<"A","u","s","t","i","n">>, <<"S","a","l","t"," ","L","a",
        "k","e"," ","C","i","t","y">>, <<"R","e","n","o">>}

\* a state as the headline writes it, with its full name
StateForms ==
    {<<<<","," ","O","H">>, <<"O","h","i","o">>>>, <<<<","," ","O","h","i","o">>, <<"O","h","i",
            "o">>>>, <<<<" ","T","X">>, <<"T","e","x","a","s">>>>,
     <<<<","," ","N","e","v","a","d","a">>, <<"N","e","v","a","d","a">>>>}

Stateless ==
    {<<"T","e","l","l"," ","m","e"," ","m","o","r","e">>, <<"N","e","w"," ","p","l","a","n","t"," ",
            "o","r"," ","d","e","p","o","t">>, <<"S","a","y"," ","h","i"," ","t","o"," ","g","r",
            "o","w","t","h">>, <<"G","r","o","w","t","h"," ","a","h","e","a","d">>}

InitLocation ==
    /\ fn = ""
    /\ arg \in {[text |-> l \o c \o f[1], city |-> c, state |-> f[2]] :
                    l \in Leads, c \in Cities, f \in StateForms}
               \cup {[text |-> t, city |-> None, state |-> None] : t \in Stateless}
    /\ ret = <<>>
    /\ NoHandler

Call_extract_location_from_headline ==
    /\ fn = ""
    /\ fn' = "extract_location_from_headline"
    /\ ret' = extract_location_from_headline(arg.text)
    /\ UNCHANGED <<arg, handler>>

NextLocation == Call_extract_location_from_headline

SpecLocation == InitLocation /\ [][NextLocation]_vars


(***************************************************************************)
(* extract_company_name applied to headlines that begin with a capitalized *)
(* phrase and a corporate suffix.  arg.phrase is the phrase the headline   *)
(* was built with.                                                         *)
(***************************************************************************)
Phrases ==
    {<<"A","c","m","e">>, <<"A","c","m","e"," ","W","i","d","g","e","t","s">>, <<"A","c","m","e",
            " ","M","a","n","u","f","a","c","t","u","r","i","n","g">>, <<"A","b","c">>, <<"B","l",
            "u","e"," ","R","i","d","g","e"," ","S","t","e","e","l">>}

Suffixes == {<<" ","I","n","c",".">>, <<" ","L","L","C">>, <<" ","C","o","r","p">>, <<" ","C","o",
        ".">>}

CompanyTails ==
    {<<>>, <<" ","E","x","p","a","n","d","s"," ","F","a","c","i","l","i","t","y">>, <<" ","O","p",
            "e","n","s"," ","P","l","a","n","t">>, <<" ","t","o"," ","B","u","i","l","d"," ","W",
            "a","r","e","h","o","u","s","e">>, <<" ","a","d","d","s"," ","2","5","0"," ","j","o",
            "b","s">>}

InitCompany ==
    /\ fn = ""
    /\ arg \in {[text |-> c \o x \o t, phrase |-> c] :
                    c \in Phrases, x \in Suffixes, t \in CompanyTails}
    /\ ret = <<>>
    /\ NoHandler

Call_extract_company_name ==
    /\ fn = ""
    /\ fn' = "extract_company_name"
    /\ ret' = extract_company_name(arg.text)
    /\ UNCHANGED <<arg, handler>>

NextCompany == Call_extract_company_name

SpecCompany == InitCompany /\ [][NextCompany]_vars

(***************************************************************************)
(* extract_job_numbers applied to texts with one number, after a lead or   *)
(* before a tail that may make a job phrase, and to texts with two         *)
(* numbers.  arg.number is the number the claim expects: the number of the *)
(* text, or the one of the first pattern that matches; None when the text  *)
(* has no job phrase.                                                      *)
(***************************************************************************)
JobLeads ==
    {<<"p","l","a","n","s"," ","t","o"," ","c","r","e","a","t","e"," ">>, <<"w","o","r","k","f","o",
            "r","c","e"," ","o","f"," ">>, <<"w","i","l","l"," ","e","m","p","l","o","y"," ","u",
            "p"," ","t","o"," ">>, <<"a","d","d","i","n","g"," ">>}

PlainLeads == {<<>>, <<"a","b","o","u","t"," ">>}

Numbers == {<<"2","5","0">>, <<"2","5","0","0">>, <<"1",",","2","0","0">>, <<"1","2",",","3","4",
        "5">>, <<"7">>}

JobTails == {<<" ","j","o","b","s">>, <<" ","n","e","w"," ","j","o","b","s">>, <<" ","w","o","r",
        "k","e","r","s">>}

PlainTails == {<<>>, <<" ","w","i","d","g","e","t","s">>}

InitJobs ==
    /\ fn = ""
    /\ arg \in {[text |-> l \o n \o t,
                 number |-> IF l \in JobLeads \/ t \in JobTails THEN n ELSE None] :
                    l \in JobLeads \cup PlainLeads, n \in Numbers, t \in JobTails \cup PlainTails}
               \cup {[text |-> <<"h","i","r","i","n","g"," ","1","0","0"," ","a","n","d"," ","5",
                       "0"," ","j","o","b","s">>, number |-> <<"5","0">>],
                     [text |-> <<"w","o","r","k","f","o","r","c","e"," ","o","f"," ","3","0","0",
                             " ","t","o"," ","c","r","e","a","t","e"," ","4",
                             "0">>, number |-> <<"4","0">>],
                     [text |-> <<"n","o"," ","j","o","b"," ","p","h","r","a","s","e"," ","h","e",
                             "r","e">>, number |-> None]}
    /\ ret = <<>>
    /\ NoHandler

Call_extract_job_numbers ==
    /\ fn = ""
    /\ fn' = "extract_job_numbers"
    /\ ret' = extract_job_numbers(arg.text)
    /\ UNCHANGED <<arg, handler>>

NextJobs == Call_extract_job_numbers

SpecJobs == InitJobs /\ [][NextJobs]_vars


(***************************************************************************)
(* Claims about fix_text_spacing and extract_google_url                    *)
(***************************************************************************)
\* C10: headline normalization is idempotent: normalizing the result of
\* fix_text_spacing again gives the same string, for every input, with runs of
\* capitals, glued stems and leading or trailing whitespace among them.
FixTextSpacingIdempotent ==
    fn = "fix_text_spacing" => fix_text_spacing(ret) = ret

\* a text with leading whitespace, a glued stem and a run of capitals has been
\* normalized, and the normalization changed it
FixTextSpacingWitness ==
    /\ fn = "fix_text_spacing"
    /\ arg = <<" ">> \o StemCompany \o <<"A", "B">>
    /\ ret = <<" ">> \o StemCompany \o <<" ", "A", "B">>

HttpScheme == <<"h","t","t","p",":","/","/">>

HttpsScheme == <<"h","t","t","p","s",":","/","/">>

HasHttpScheme(href) == StartsAt(href, 1, HttpScheme) \/ StartsAt(href, 1, HttpsScheme)

\* the href has a query parameter named url
HasUrlParam(href) ==
    Contains(href, <<"?">> \o UrlEq) \/ Contains(href, <<"&">> \o UrlEq)

\* C9: the three-way rule of extract_google_url: a redirect link carrying
\* target T percent-encoded in its url parameter, whatever parameters stand
\* before or after it, resolves to exactly T; an href without the redirect
\* indicator that begins with an HTTP(S) scheme is returned unchanged; every
\* other href yields no URL.
ResolverThreeWayRule ==
    fn = "extract_google_url" =>
        /\ arg.wraps # None => ret = arg.wraps
        /\ (/\ arg.wraps = None
            /\ ~Contains(arg.href, RedirectIndicator)
            /\ HasHttpScheme(arg.href)) => ret = arg.href
        /\ (/\ arg.wraps = None
            /\ ~Contains(arg.href, RedirectIndicator)
            /\ ~HasHttpScheme(arg.href)) => ret = None
        /\ (/\ arg.wraps = None
            /\ Contains(arg.href, RedirectIndicator)
            /\ ~HasUrlParam(arg.href)) => ret = None

(***************************************************************************)
(* Claims about parse_google_alert_email                                   *)
(***************************************************************************)
\* the rows of the tables of the document
TableRows(doc) == {RowVisits(doc)[k] : k \in 1..Len(RowVisits(doc))}

\* the link is the first link of a table row and passes the row strategy
QualifiesInRow(doc, link) ==
    /\ \E row \in TableRows(doc) :
           find_all_links(doc, row) # <<>> /\ Head(find_all_links(doc, row)) = link
    /\ ~SkipRow(doc[link].href)
    /\ extract_google_url(doc[link].href) # None
    /\ Meaningful(NewAlert(doc, link, <<>>))

\* the link passes the direct link search
QualifiesDirect(doc, link) ==
    /\ ~SkipLink(doc[link].href)
    /\ extract_google_url(doc[link].href) # None
    /\ Meaningful(NewAlert(doc, link, <<>>))

\* the qualifying anchors of the document, in document order
QualifyingLinks(doc) ==
    LET inRows == SelectSeq(find_all_links(doc, 0), LAMBDA a : QualifiesInRow(doc, a))
    IN  IF inRows # <<>> THEN inRows
        ELSE SelectSeq(find_all_links(doc, 0), LAMBDA a : QualifiesDirect(doc, a))

\* C3: parse_google_alert_email returns at most 10 records; with more than 10
\* qualifying anchors it returns exactly 10; and the records are the first 10
\* qualifying anchors in document order, each anchor once, nested tables
\* included.
ParseFirstTenInOrder ==
    fn = "parse_google_alert_email" =>
        LET links == QualifyingLinks(arg)
        IN  /\ Len(ret) <= MaxAlerts
            /\ Len(links) > MaxAlerts => Len(ret) = MaxAlerts
            /\ [k \in 1..Len(ret) |-> ret[k].url]
                 = Take([k \in 1..Len(links) |-> extract_google_url(arg[links[k]].href)],
                        MaxAlerts)

(***************************************************************************)
(* Claims about process_google_alert                                       *)
(***************************************************************************)
\* the request carries a JSON object with a non-empty email body
HasBody(r) == r.json = "object" /\ Truthy(email_body(r))

\* the links of the email body whose normalized text has 10 characters or
\* fewer
ShortLinks(doc) ==
    {a \in {find_all_links(doc, 0)[k] : k \in 1..Len(find_all_links(doc, 0))} :
        Len(NewAlert(doc, a, <<>>).headline) <= MinHeadline}

\* the email bodies of the requests with the records the Alert Extractor
\* returns for them and the URLs of their short links
Parsed ==
    {[body |-> b, records |-> parse_google_alert_email(b),
      short |-> {extract_google_url(b[a].href) : a \in ShortLinks(b)}] :
         b \in MailBodies \cup {NotHtml}}

Extraction(r) == CHOOSE x \in Parsed : x.body = BeautifulSoup(email_body(r))

\* the records the Alert Extractor returns for the request's email body
Extracted(r) == Extraction(r).records

\* C1: for every request with a non-empty email body, whatever the article
\* fetch and the language-model call return or raise (a JSON object whose
\* values are null or no strings included), the failure stays with its alert:
\* the submitter has run for every alert, the response has one result entry
\* per extracted alert, and the response is status 'success', not HTTP 500.
FailuresContained ==
    (pc = "done" /\ HasBody(request)) =>
        /\ response.code = 200
        /\ response.status = "success"
        /\ Len(results) = Len(Extracted(request))
        /\ Len(response.results) = Len(Extracted(request))

\* the POSTs made for alert k
PostsFor(k) == {j \in 1..Len(calls) : calls[j].kind = "post" /\ calls[j].alert = k}

Diagnostics ==
    {"Missing SmartSuite API key", "Exception: TypeError", "Exception: ConnectionError",
     "SmartSuite error"}

\* C2: send_to_smartsuite never raises and returns a success flag and a
\* message: success exactly when a POST was made for the alert and its status
\* was 200 or 201; without API key a failure and no POST; any other status, a
\* network fault or a company that is no string gives failure with a
\* diagnostic message.  In the handler the failure is one result entry with
\* success false, and the loop goes on to the next alert.
SubmitterReportsFailure ==
    /\ response.message # "send_to_smartsuite raised"
    /\ pc \in {"fetch", "extract", "submit"} => alert_no = Len(results) + 1
    /\ (pc = "done" /\ response.code = 200) => Len(results) = Len(alerts)
    /\ \A k \in 1..Len(results) :
          /\ results[k].success \in BOOLEAN
          /\ Cardinality(PostsFor(k)) <= 1
          /\ results[k].success <=> \E j \in PostsFor(k) : calls[j].status \in {200, 201}
          /\ results[k].success => results[k].message.text = "Successfully sent to SmartSuite"
          /\ ~results[k].success => results[k].message.text \in Diagnostics
          /\ ~SMARTSUITE_API_KEY =>
                /\ PostsFor(k) = {}
                /\ results[k].message.text = "Missing SmartSuite API key"
          /\ (SMARTSUITE_API_KEY /\ alerts[k].company.t = "num" /\ Truthy(alerts[k].company)) =>
                /\ PostsFor(k) = {}
                /\ results[k].message.text = "Exception: TypeError"
          /\ (\E j \in PostsFor(k) : calls[j].status \notin {200, 201}) =>
                results[k].message.text \in {"Exception: ConnectionError", "SmartSuite error"}

\* the first alert's company is a number and its submission failed without a
\* POST; the second alert was then submitted and stored
SubmitterWitness ==
    /\ pc = "done"
    /\ Len(results) = 2
    /\ results[1].message.text = "Exception: TypeError"
    /\ ~results[1].success
    /\ PostsFor(1) = {}
    /\ results[2].success
    /\ \E j \in PostsFor(2) : calls[j].status = 201

\* the request's input is missing or malformed: no JSON object, or neither
\* body_html nor body_plain with a non-empty value
Malformed(r) ==
    \/ r.json # "object"
    \/ /\ r.body_html \in {Absent, Null, Str(<<>>)}
       /\ r.body_plain \in {Absent, Null, Str(<<>>)}

\* C4: a request whose input is missing or malformed (no body_html and no
\* body_plain, both empty, or a JSON payload that is absent or no object) is
\* answered with HTTP 400 and status 'error', and no fetch, language-model
\* call or submission is made for it.
MalformedAnswered400 ==
    (pc = "done" /\ Malformed(request)) =>
        /\ response.code = 400
        /\ response.status = "error"
        /\ calls = <<>>

\* C5: for every request with a non-empty body that completes without an
\* internal fault the response has status 'success', processed is the number
\* of records the Alert Extractor returned (0 for a body without qualifying
\* anchors or one that cannot be parsed), results has one entry per record in
\* extraction order, and sent_to_smartsuite is the number of entries with
\* success true, so 0 <= sent_to_smartsuite <= processed <= 10.
ResponseCounts ==
    (pc = "done" /\ HasBody(request) /\ response.code # 500) =>
        /\ response.code = 200
        /\ response.status = "success"
        /\ response.processed = Len(Extracted(request))
        /\ Len(response.results) = response.processed
        /\ \A k \in 1..Len(response.results) :
              response.results[k].headline = Extracted(request)[k].headline
        /\ response.sent_to_smartsuite
             = Cardinality({k \in 1..Len(response.results) : response.results[k].success})
        /\ 0 <= response.sent_to_smartsuite
        /\ response.sent_to_smartsuite <= response.processed
        /\ response.processed <= MaxAlerts

\* a response for two records with different headlines, of which one was stored
ResponseCountsWitness ==
    /\ pc = "done"
    /\ response.code = 200
    /\ response.processed = 2
    /\ response.sent_to_smartsuite = 1
    /\ response.results[1].headline # response.results[2].headline
    /\ ~response.results[1].success
    /\ response.results[2].success

\* C6: every record that reaches send_to_smartsuite has a non-empty headline
\* of more than 10 characters after normalization and trimming, with the
\* table-row strategy and with the fallback strategy; the headline is the one
\* extracted, unchanged; and a link whose normalized text has 10 characters
\* or fewer never produces a submission.
SubmittedHeadlinesMeaningful ==
    /\ pc = "submit" =>
          /\ alerts[alert_no].headline # <<>>
          /\ Len(alerts[alert_no].headline) > MinHeadline
          /\ alerts[alert_no].headline = Extracted(request)[alert_no].headline
    /\ \A k \in 1..Len(results) :
          /\ Len(results[k].headline) > MinHeadline
          /\ results[k].headline = Extracted(request)[k].headline
    /\ pc \in {"fetch", "extract", "submit", "done"} /\ HasBody(request) =>
          \A k \in 1..Len(alerts) : alerts[k].url \notin Extraction(request).short

\* the email has a link of exactly 10 characters outside of any table, beside
\* an alert link; the alert found by the fallback strategy is at the
\* submitter and the short link gave no record
SubmittedHeadlinesWitness ==
    /\ pc = "submit"
    /\ request.body_html = Str(EmailBody(2, 1, "ten", FALSE))
    /\ Len(alerts) = 1
    /\ alerts[1].headline = <<"A","c","m","e"," ","E","x","p","a","n","d","s"," ","S","i","t","e","2">>
    /\ Extraction(request).short = {ArticleUrl(1)}

\* an empty value: the empty string, null or the number 0
Empty(v) == v \in {Str(<<>>), Null, Num(0), Absent}

\* C7: the payload send_to_smartsuite POSTs has no key whose value is empty:
\* each of company, address, summary, job estimate, URL and source is in the
\* payload exactly when its (truncated) value is not empty, and then with
\* that value; the title and the date are always in it.
PayloadHasNoEmptyValue ==
    \A j \in 1..Len(calls) :
        calls[j].kind = "post" =>
            LET p == calls[j].payload
                a == alerts[calls[j].alert]
                In(key, value) ==
                    /\ key \in DOMAIN p <=> ~Empty(value)
                    /\ key \in DOMAIN p => p[key] = value
            IN  /\ \A k \in DOMAIN p : ~Empty(p[k])
                /\ "title" \in DOMAIN p
                /\ "s8d5616e3e" \in DOMAIN p
                /\ DOMAIN p \subseteq PayloadKeys
                /\ In("sc373e6626", a.company)
                /\ In("s46434c9b6", a.address)
                /\ In("s492934214", Str(Take(a.lead_summary.s, MaxSummary)))
                /\ In("sa8ca8dbcb", a.estimated_jobs)
                /\ In("s8e6e9fe79", Str(a.url))
                /\ In("s6e74e1ce5", Str(Take(a.source, MaxSource)))

\* a payload was POSTed for an alert with a company, a summary longer than
\* the limit, no address, no job estimate and no source: it has the company
\* and the truncated summary and lacks the three keys
PayloadWitness ==
    \E j \in 1..Len(calls) :
        /\ calls[j].kind = "post"
        /\ alerts[calls[j].alert].address = Str(<<>>)
        /\ alerts[calls[j].alert].source = <<>>
        /\ Len(alerts[calls[j].alert].lead_summary.s) > MaxSummary
        /\ DOMAIN calls[j].payload = {"title", "sc373e6626", "s492934214", "s8e6e9fe79", "s8d5616e3e"}
        /\ Len(calls[j].payload["s492934214"].s) = MaxSummary

(***************************************************************************)
(* Claims about extract_all_info_with_ai                                   *)
(***************************************************************************)
\* what the deterministic extractors and the Summary Synthesizer give for the
\* headlines, with a content that was fetched and with one that was not
Deterministic ==
    {[headline |-> h, fetched |-> f,
      fields |-> Fields(Str(extract_company_name(h)), Str(extract_location_from_headline(h)),
                        Str(extract_job_numbers(h)),
                        Str(create_detailed_summary(h, <<>>, <<>>,
                                                    IF f THEN Fetched ELSE Blocked)))] :
         h \in Headlines, f \in BOOLEAN}

FallbackFields(a) ==
    (CHOOSE x \in Deterministic :
        x.headline = a.headline /\ x.fetched = ~Unavailable(a.content)).fields

\* no client is configured, the call raised or the reply is no JSON object
Unavailing(a) == ~a.client \/ a.reply.kind \in {"raise", "garbage", "array"}

\* the reply is a JSON object whose summary is no string, and the content is
\* not usable: appending the note to the summary raises
NoteRaises(a) ==
    /\ a.client
    /\ a.reply.kind = "object"
    /\ ~has_content(a.content)
    /\ a.reply.summary \notin {Absent} /\ a.reply.summary.t # "str"

\* C8: extract_all_info_with_ai never propagates a failure: without client,
\* when the call raises or when the reply cannot be decoded as a JSON object
\* it returns company, address, jobs and summary as the deterministic
\* extractors and the Summary Synthesizer give them for the headline; and the
\* Summary Synthesizer is used only in these three cases.
SynthesizerOnlyWhenUnavailing ==
    fn = "extract_all_info_with_ai" =>
        /\ ~ret.raised
        /\ Unavailing(arg) => ret = FallbackFields(arg)
        /\ ret.summary = FallbackFields(arg).summary => Unavailing(arg)

\* C8 as amended: the result is the deterministic one exactly in the three
\* cases and in a fourth: the reply is a JSON object whose summary is null or
\* no string while the content is not usable, so that appending the note
\* raises inside the try statement.
SynthesizerWhenAnyFailure ==
    fn = "extract_all_info_with_ai" =>
        /\ ~ret.raised
        /\ DOMAIN ret = {"raised", "company", "address", "jobs", "summary"}
        /\ (Unavailing(arg) \/ NoteRaises(arg)) => ret = FallbackFields(arg)
        /\ ret.summary = FallbackFields(arg).summary => (Unavailing(arg) \/ NoteRaises(arg))
        /\ ~(Unavailing(arg) \/ NoteRaises(arg)) =>
              /\ ret.company = Get(arg.reply.company, Str(<<>>))
              /\ ret.address = Get(arg.reply.address, Str(<<>>))
              /\ ret.jobs = Get(arg.reply.jobs, Str(<<>>))

\* the client answered a JSON object with a null summary for a content that
\* could not be fetched, and the result is the deterministic one
SynthesizerWitness ==
    /\ fn = "extract_all_info_with_ai"
    /\ arg.client
    /\ arg.reply = Reply("object", Null, Null, Null, Null)
    /\ arg.content = Blocked
    /\ ~Unavailing(arg)
    /\ ret = FallbackFields(arg)
    /\ ret.company = Str(<<"A","c","m","e">>)

(***************************************************************************)
(* Claims about the pattern rules                                          *)
(***************************************************************************)
\* C11: extract_location_from_headline returns the city phrase that stands
\* immediately before a state name or abbreviation, followed by the full name
\* of the state: "ExampleCo Opens Plant in Dayton, OH" gives "Dayton, Ohio";
\* and a short common word of the headline that equals a state abbreviation
\* (in, or, me, hi) is not taken as the state, so a headline that names no
\* state gives no location.
LocationBeforeState ==
    fn = "extract_location_from_headline" =>
        /\ arg.state # None => ret = arg.city \o CommaSpace \o arg.state
        /\ arg.state = None => ret = <<>>
        /\ arg.text = <<"E","x","a","m","p","l","e","C","o"," ","O","p","e","n","s"," ","P","l","a",
                "n","t"," ","i","n"," ","D","a","y","t","o","n",","," ","O","H">> => ret = <<"D",
                "a","y","t","o","n",","," ","O","h","i","o">>

\* C12: extract_company_name returns the capitalized phrase that stands before
\* the corporate suffix, without the suffix, with a length strictly between 3
\* and 50: "Acme Manufacturing Inc. Expands Facility" gives "Acme
\* Manufacturing".
CompanyBeforeSuffix ==
    fn = "extract_company_name" =>
        /\ ret # <<>> => Len(ret) > MinCompany /\ Len(ret) < MaxCompany
        /\ (Len(arg.phrase) > MinCompany /\ Len(arg.phrase) < MaxCompany) => ret = arg.phrase
        /\ arg.text = <<"A","c","m","e"," ","M","a","n","u","f","a","c","t","u","r","i","n","g"," ",
                "I","n","c","."," ","E","x","p","a","n","d","s"," ","F","a","c","i","l","i","t",
                "y">> => ret = <<"A","c","m","e"," ","M","a","n","u","f","a","c","t","u","r","i",
                "n","g">>

\* C13: extract_job_numbers tries its four patterns in their order and returns
\* the number of the first pattern that matches, complete as the text writes
\* it, commas included: "plans to create 250 new jobs" gives "250",
\* "workforce of 1,200" gives "1,200", a text without job phrase gives the
\* empty string, and the result is never a part of a longer run of digits
\* ("2500 jobs" does not give "500").
JobNumberComplete ==
    fn = "extract_job_numbers" =>
        /\ arg.number # None => ret = arg.number
        /\ arg.number = None => ret = <<>>
        /\ arg.text = <<"p","l","a","n","s"," ","t","o"," ","c","r","e","a","t","e"," ","2","5","0",
                " ","n","e","w"," ","j","o","b","s">> => ret = <<"2","5","0">>
        /\ arg.text = <<"w","o","r","k","f","o","r","c","e"," ","o","f"," ","1",",","2","0",
                "0">> => ret = <<"1",",","2","0","0">>
        /\ arg.text = <<"2","5","0","0"," ","j","o","b","s">> => ret # <<"5","0","0">>

(***************************************************************************)
(* Claims about the outbound calls and the two strategies of the parser    *)
(***************************************************************************)
\* the kinds of the calls made for alert k, in the order they were made
KindsFor(k) ==
    LET made == SelectSeq(calls, LAMBDA c : c.alert = k)
    IN  [j \in 1..Len(made) |-> made[j].kind]

\* C14: within one request the outbound calls are sequential and never
\* repeated: for every alert the order is fetch, then (only with a
\* language-model client) one language-model call, then the POST; every call
\* for alert i is made before any call for alert i+1; an alert has at most one
\* fetch, one language-model call and one POST, and no call is made again
\* after a failure.
CallsSequentialOnce ==
    /\ \A j \in 1..Len(calls) : calls[j].alert \in 1..Len(alerts) /\ calls[j].alert <= alert_no
    /\ \A j \in 1..(Len(calls) - 1) : calls[j].alert <= calls[j + 1].alert
    /\ \A k \in 1..Len(alerts) :
          /\ KindsFor(k) \in {<<>>, <<"fetch">>, <<"fetch", "llm">>, <<"fetch", "post">>,
                              <<"fetch", "llm", "post">>}
          /\ anthropic_client => KindsFor(k) # <<"fetch", "post">>
          /\ ~anthropic_client => KindsFor(k) \notin {<<"fetch", "llm">>, <<"fetch", "llm",
                   "post">>}
          /\ k <= Len(results) =>
                /\ KindsFor(k)[1] = "fetch"
                /\ anthropic_client => KindsFor(k)[2] = "llm"
          /\ (k < alert_no /\ pc # "done") => k <= Len(results)

\* two alerts were handled with a client and a key: the fetch for the first
\* was refused, its POST answered 400, and each call was made once, before
\* the calls for the second alert
CallsWitness ==
    /\ pc = "done"
    /\ response.code = 200
    /\ [j \in 1..Len(calls) |-> <<calls[j].kind, calls[j].alert>>]
         = <<<<"fetch", 1>>, <<"llm", 1>>, <<"post", 1>>, <<"fetch", 2>>, <<"llm", 2>>,
             <<"post", 2>>>>
    /\ calls[1].status = 403
    /\ calls[3].status = 400

\* the href matches a noise pattern (alert management, mail-to, fragment or
\* support link) or does not resolve
NoiseOrUnresolved(href) ==
    \/ Contains(href, GoogleAlerts)
    \/ Contains(href, MailTo)
    \/ Contains(href, <<"#">>)
    \/ Contains(href, SupportGoogle)
    \/ extract_google_url(href) = None

\* C15: in parse_google_alert_email the fallback scan over all anchors runs
\* exactly when the table-row strategy gave no record, and it applies the same
\* noise skip and redirect resolution as the table-row strategy: in both, an
\* anchor whose href matches a noise pattern or does not resolve never gives
\* a record; and the fallback's records have an empty source.
StrategiesSkipSameNoise ==
    fn = "parse_google_alert_email" =>
        /\ TableAlerts(arg) # <<>> => ret = Take(TableAlerts(arg), MaxAlerts)
        /\ TableAlerts(arg) = <<>> =>
              /\ ret = Take(DirectAlerts(arg), MaxAlerts)
              /\ \A k \in 1..Len(ret) : ret[k].source = <<>>
        /\ \A j \in 1..Len(find_all_links(arg, 0)) :
              LET href == arg[find_all_links(arg, 0)[j]].href
              IN  NoiseOrUnresolved(href) =>
                      \A k \in 1..Len(ret) : ret[k].url # extract_google_url(href)

=============================================================================
